---- MODULE Spec2Model ----
(***************************************************************************)
(* Crew-centric activity detection engine (backend/activity_manager.py).   *)
(*                                                                         *)
(* Conventions of the model                                                *)
(*   - time is counted in whole minutes (the code counts milliseconds);    *)
(*   - a missing / None id is 0, a missing killmail_time is NoTime, a      *)
(*     missing stargate_name / celestial name is the empty string;         *)
(*   - probability arithmetic is exact, in units of 1/10000 ("bp");        *)
(*   - matcher scores are exact rationals, kept as numerator / denominator;*)
(*   - python dicts and lists keep insertion order: they are sequences.    *)
(***************************************************************************)
EXTENDS Integers, Sequences, FiniteSets, TLC

VARIABLES crews, expired_queue, now, next_id, ingests, op, inflight, ticker, intake

vars == <<crews, expired_queue, now, next_id, ingests, op, inflight, ticker, intake>>

(***************************************************************************)
(* constants.py                                                            *)
(***************************************************************************)
CAMP_TIMEOUT_MS == 30
ROAM_TIMEOUT_MS == 30
DECAY_START_MS == 13
CAPSULE_ID == 670
MTU_ID == 35834

SMARTBOMB_WEAPON_IDS ==
    {
      3939, 3943, 3949, 3955, 3977, 3979, 3981, 3983, 3987, 3989,
      3993, 3995, 9668, 9678, 9728, 9734, 9762, 9772, 9800, 9808,
      14188, 14190, 14192, 14194, 14204, 14206, 14208, 14210, 14220, 14222,
      14544, 14546, 14548, 14550, 14692, 14694, 14696, 14698, 14784, 14786,
      14788, 14790, 14792, 14794, 14796, 14798, 15152, 15154, 15156, 15158,
      15929, 15931, 15937, 15939, 15945, 15947, 15953, 15955, 15961, 15963,
      21536, 21538, 23866, 23868, 28545, 84495, 84496, 84497, 84498
    }

THREAT_SHIPS(st) ==
    CASE st = 3756 -> 2000
      [] st = 11202 -> 300
      [] st = 11196 -> 1100
      [] st = 11176 -> 400
      [] st = 11184 -> 300
      [] st = 11186 -> 800
      [] st = 11200 -> 300
      [] st = 11178 -> 400
      [] st = 29988 -> 3500
      [] st = 20125 -> 2000
      [] st = 17722 -> 2500
      [] st = 22456 -> 5000
      [] st = 22464 -> 4400
      [] st = 22452 -> 4400
      [] st = 22460 -> 4400
      [] st = 12013 -> 4000
      [] st = 11995 -> 4000
      [] st = 12021 -> 4000
      [] st = 12017 -> 4000
      [] st = 29984 -> 1500
      [] st = 29990 -> 2900
      [] st = 11174 -> 3000
      [] st = 35683 -> 500
      [] st = 11969 -> 3000
      [] st = 11961 -> 3000
      [] st = 11957 -> 400
      [] st = 29986 -> 900
      [] st = 47466 -> 1000
      [] st = 12038 -> 500
      [] st = 12034 -> 500
      [] st = 17720 -> 1200
      [] st = 11963 -> 1600
      [] st = 12044 -> 800
      [] st = 17922 -> 1800
      [] st = 11999 -> 600
      [] st = 85086 -> 400
      [] st = 33818 -> 300
      [] st = 11971 -> 2200
      [] st = 4310 -> 100
      [] st = 17738 -> 100
      [] st = 11387 -> 300
      [] OTHER -> 0

SMARTBOMB_SHIPS == {17738, 3756, 29988, 47466}

\* system_id -> weight (bp); 0 when the system is not a permanent camp
PERMANENT_CAMPS_weight(sys) ==
    CASE sys = 30002813 -> 5000
      [] sys = 30003068 -> 5000
      [] sys = 30000142 -> 2500
      [] sys = 30002647 -> 3000
      [] sys = 30005196 -> 4000
      [] OTHER -> 0

\* system_id -> the gate names of the table
PERMANENT_CAMPS_gates(sys) ==
    CASE sys = 30002813 -> {"Nourvukaiken", "Kedama"}
      [] sys = 30003068 -> {"Miroitem", "Crielere"}
      [] sys = 30000142 -> {"Perimeter"}
      [] sys = 30002647 -> {"Iyen-Oursta"}
      [] sys = 30005196 -> {"Shera"}
      [] OTHER -> {}

THREAT_SCORE_CAP == 5000
CONSISTENCY_BONUS == 1500
MAX_CONSISTENCY_BONUS == 3000
WIDELY_SPACED_BONUS == 1500
MAX_WIDELY_SPACED_BONUS == 4500
POD_BONUS_PER_KILL == 300
MAX_POD_BONUS == 1500
BURST_PENALTY == 2000
OVERALL_PROB_CAP == 9500
MIN_PROB_THRESHOLD == 5
BATTLE_PARTICIPANT_THRESHOLD == 40

(***************************************************************************)
(* activity_manager.py : module constants                                  *)
(***************************************************************************)
INTERDICTOR_SHIP_IDS == {22456, 22464, 22452, 22460, 12013, 11995, 12021, 12017}

\* matcher weights, in units of 1/2000
MATCH_THRESHOLD == 700
CHAR_OVERLAP_WEIGHT == 1000
CORP_ALLIANCE_WEIGHT == 500
SPATIAL_WEIGHT == 300
TEMPORAL_WEIGHT == 200

MEMBER_IDLE_TIMEOUT_MS == 15
MEMBER_DEPARTED_TIMEOUT_MS == 45
CREW_MIN_KILLS_TO_SAVE == 2
DISSOLUTION_MIN_ACTIVE == 2
\* DISSOLUTION_ACTIVE_RATIO = 0.30, as the fraction 3 / 10
DISSOLUTION_ACTIVE_RATIO_NUM == 3
DISSOLUTION_ACTIVE_RATIO_DEN == 10

NoTime == -1

(***************************************************************************)
(* Sequence helpers                                                        *)
(***************************************************************************)
Range(s) == {s[i] : i \in DOMAIN s}

Min2(a, b) == IF a <= b THEN a ELSE b
Max2(a, b) == IF a >= b THEN a ELSE b

\* python's list.sort(key=...) is stable: insertion sort of <<key, item>> pairs
RECURSIVE InsertByKey(_, _)
InsertByKey(sorted, x) ==
    IF sorted = << >> THEN <<x>>
    ELSE IF sorted[Len(sorted)][1] <= x[1] THEN Append(sorted, x)
    ELSE Append(InsertByKey(SubSeq(sorted, 1, Len(sorted) - 1), x),
                sorted[Len(sorted)])

RECURSIVE StableSortUpTo(_, _)
StableSortUpTo(pairs, n) ==
    IF n = 0 THEN << >>
    ELSE InsertByKey(StableSortUpTo(pairs, n - 1), pairs[n])

\* s sorted by Key, ties in their original order
StableSort(s, keys) ==
    LET pairs == [i \in DOMAIN s |-> <<keys[i], s[i]>>]
        sorted == StableSortUpTo(pairs, Len(pairs))
    IN  [i \in DOMAIN sorted |-> sorted[i][2]]

RECURSIVE SumInts(_)
SumInts(s) == IF s = << >> THEN 0 ELSE Head(s) + SumInts(Tail(s))


(***************************************************************************)
(* Input: the enriched killmails the feed can deliver, and the injected    *)
(* adjacency relation.  A crew's kill list holds keys of EventTable.       *)
(***************************************************************************)
Tama == 30002813
Jita == 30000142
TamaNeighbour == Tama - 1

Rifter == 587
Badger == 648
Sabre == 22456
Machariel == 17738
SmartbombWeapon == 3993
Autocannon == 2889

GateNourv == "Stargate (Nourvukaiken)"
GatePerimeter == "Stargate (Perimeter)"
MoonTama == "Tama V - Moon 1"

Att(c, corp, alli, ship, weapon) ==
    [character_id |-> c, corporation_id |-> corp, alliance_id |-> alli,
     ship_type_id |-> ship, weapon_type_id |-> weapon]

\* a ship kill with a player victim, no labels, value 10
Kill(id, t, sys, atts, vchar, vship, celestial) ==
    [killID |-> id, killmail_time |-> t, solar_system_id |-> sys,
     attackers |-> atts,
     victim |-> [character_id |-> vchar, corporation_id |-> 90, alliance_id |-> 0,
                 ship_type_id |-> vship],
     victim_category |-> IF vship = Badger THEN "industrial" ELSE "ship",
     totalValue |-> 10, awox |-> FALSE, labels |-> {},
     nearestCelestial |-> celestial,
     atCelestial |-> celestial # "",
     triangulationType |-> "none"]

EventTable ==
    [k \in 1..22 |->
      CASE k = 1 -> Kill(1, 0, Tama, <<Att(1, 10, 0, Sabre, Autocannon)>>, 901, Rifter, GateNourv)
        [] k = 2 -> Kill(2, 4, Tama, <<Att(1, 10, 0, Sabre, Autocannon),
                                       Att(2, 10, 0, Rifter, Autocannon),
                                       Att(3, 11, 0, Rifter, Autocannon)>>, 902, Badger, GateNourv)
        [] k = 3 -> Kill(3, 2, Tama, <<Att(4, 20, 0, Rifter, Autocannon),
                                       Att(5, 20, 0, Rifter, Autocannon)>>, 903, Rifter, MoonTama)
        [] k = 4 -> Kill(4, 5, Tama, <<Att(1, 10, 0, Sabre, Autocannon),
                                       Att(4, 20, 0, Rifter, Autocannon)>>, 904, Rifter, GateNourv)
        [] k = 5 -> Kill(5, 1, Tama, <<Att(1, 10, 0, Sabre, Autocannon)>>, 901, CAPSULE_ID, GateNourv)
        \* NPC-only: an NPC attacker and a player attacker in a capsule
        [] k = 6 -> Kill(6, 1, Tama, <<Att(0, 1000125, 0, Rifter, Autocannon),
                                       Att(7, 10, 0, CAPSULE_ID, 0)>>, 905, Rifter, GateNourv)
        \* a smartbombing Machariel on the gate
        [] k = 7 -> Kill(7, 3, Tama, <<Att(6, 30, 0, Machariel, SmartbombWeapon)>>, 906, Rifter, GateNourv)
        \* malformed: no solar_system_id
        [] k = 8 -> Kill(8, 1, 0, <<Att(8, 40, 0, Rifter, Autocannon)>>, 907, Rifter, "")
        \* malformed: no killmail_time
        [] k = 9 -> Kill(9, NoTime, Tama, <<Att(8, 40, 0, Rifter, Autocannon)>>, 908, Rifter, MoonTama)
        \* malformed: no killID
        [] k = 10 -> Kill(0, 2, Jita, <<Att(9, 41, 0, Rifter, Autocannon)>>, 909, Rifter, GatePerimeter)
        \* malformed: no attackers at all
        [] k = 11 -> Kill(11, 2, Tama, << >>, 910, Rifter, GateNourv)
        \* later kills of the first crew, in another system
        [] k = 12 -> Kill(12, 20, Jita, <<Att(2, 10, 0, Rifter, Autocannon),
                                         Att(3, 11, 0, Rifter, Autocannon)>>, 911, Rifter, GatePerimeter)
        [] k = 13 -> Kill(13, 35, Jita, <<Att(2, 10, 0, Rifter, Autocannon)>>, 912, Rifter, GatePerimeter)
        [] k = 14 -> Kill(14, 6, Tama, <<Att(4, 20, 0, Rifter, Autocannon),
                                         Att(5, 20, 0, Rifter, Autocannon)>>, 913, Rifter, MoonTama)
        \* a third gang on the moon
        [] k = 15 -> Kill(15, 1, Tama, <<Att(8, 40, 0, Rifter, Autocannon),
                                         Att(9, 40, 0, Rifter, Autocannon)>>, 914, Rifter, MoonTama)
        [] k = 16 -> Kill(16, 3, Tama, <<Att(8, 40, 0, Rifter, Autocannon),
                                         Att(9, 40, 0, Rifter, Autocannon)>>, 915, Rifter, MoonTama)
        \* a kill on the gate by one pilot of each of the three gangs
        [] k = 17 -> Kill(17, 6, Tama, <<Att(1, 10, 0, Sabre, Autocannon),
                                         Att(4, 20, 0, Rifter, Autocannon),
                                         Att(8, 40, 0, Rifter, Autocannon)>>, 916, Rifter, GateNourv)
        \* a smartbomb kill on the gate by two pilots of the first two gangs
        [] k = 18 -> Kill(18, 7, Tama, <<Att(1, 10, 0, Sabre, SmartbombWeapon),
                                         Att(4, 20, 0, Rifter, Autocannon)>>, 917, Rifter, GateNourv)
        \* two pilots of different corporations on the gate, then one of them
        \* alone twenty minutes later
        [] k = 19 -> Kill(19, 3, Tama, <<Att(1, 10, 0, Sabre, Autocannon),
                                         Att(4, 20, 0, Rifter, Autocannon)>>, 918, Rifter, GateNourv)
        [] k = 20 -> Kill(20, 20, Tama, <<Att(4, 20, 0, Rifter, Autocannon)>>, 919, Rifter, GateNourv)
        \* a pilot of the second gang kills the Sabre pilot of the first on the gate
        [] k = 21 -> Kill(21, 8, Tama, <<Att(4, 20, 0, Rifter, Autocannon)>>, 1, Sabre, GateNourv)
        \* the smartbombing Machariel is still on the gate half an hour later
        [] OTHER -> Kill(22, 35, Tama, <<Att(6, 30, 0, Machariel, SmartbombWeapon)>>, 920, Rifter, GateNourv)]

Ev(k) == EventTable[k]

\* set_system_connectivity: the injected adjacency relation
_system_connectivity(sys) ==
    CASE sys = Tama -> {TamaNeighbour}
      [] sys = TamaNeighbour -> {Tama}
      [] OTHER -> {}

\* "stargate" in name.lower()
NameContainsStargate(name) == name \in {GateNourv, GatePerimeter}

\* g.lower() in name.lower(), for the gate strings of PERMANENT_CAMPS
NameContainsGate(g, name) ==
    \/ g = "Nourvukaiken" /\ name = GateNourv
    \/ g = "Perimeter" /\ name = GatePerimeter

(***************************************************************************)
(* Helpers                                                                 *)
(***************************************************************************)
\* a killmail without a parseable killmail_time gets the current time
_kill_time_ms(k, t_now) ==
    IF k.killmail_time = NoTime THEN t_now ELSE k.killmail_time

_is_adjacent_system(sys_a, sys_b) == sys_b \in _system_connectivity(sys_a)

\* a variant that takes a capsule pilot for a player attacker
IsPlayerAttacker_AnyShip(a) == a.character_id # 0

IsPlayerAttacker(a) == a.character_id # 0 /\ a.ship_type_id # CAPSULE_ID

\* <<character ids, corporation ids, alliance ids>> of the player attackers
_extract_attacker_info(k) ==
    LET players == {i \in DOMAIN k.attackers : IsPlayerAttacker(k.attackers[i])}
    IN  [chars |-> {k.attackers[i].character_id : i \in players},
         corps |-> {k.attackers[i].corporation_id : i \in players} \ {0},
         alliances |-> {k.attackers[i].alliance_id : i \in players} \ {0}]

_attacker_count(k) == Len(SelectSeq(k.attackers, IsPlayerAttacker))

\* a variant that takes every pod for an orphan
_is_followup_pod_Orphan(k, earlier) == FALSE

\* earlier: a sequence of event keys
_is_followup_pod(k, earlier) ==
    /\ k.victim.ship_type_id = CAPSULE_ID
    /\ k.victim.character_id # 0
    /\ \E i \in DOMAIN earlier :
          /\ Ev(earlier[i]).victim.character_id = k.victim.character_id
          /\ Ev(earlier[i]).victim.ship_type_id # CAPSULE_ID

_is_gate_camp_kill(k) ==
    /\ k.nearestCelestial # ""
    /\ NameContainsStargate(k.nearestCelestial)
    /\ (k.atCelestial \/ k.triangulationType \in {"direct_warp", "near_celestial"})

\* for one killmail
_has_smartbombs(k) ==
    \E i \in DOMAIN k.attackers :
        k.attackers[i].weapon_type_id \in SMARTBOMB_WEAPON_IDS

(***************************************************************************)
(* class Crew                                                              *)
(***************************************************************************)
MemberState(char_id, corp_id, alliance_id, ship_type_id, kill_time) ==
    [character_id |-> char_id, corp_id |-> corp_id, alliance_id |-> alliance_id,
     ship_type_ids |-> IF ship_type_id # 0 THEN {ship_type_id} ELSE {},
     first_seen |-> kill_time, last_seen |-> kill_time,
     kill_count |-> 1, status |-> "active"]

\* Crew.__init__
Crew(crew_id, system_id, kill_time) ==
    [id |-> crew_id,
     anchor_corp_id |-> 0, anchor_alliance_id |-> 0, anchor_corp_ids |-> {},
     members |-> << >>,
     kills |-> << >>, total_value |-> 0,
     current_system_id |-> system_id,
     systems_visited |-> <<[id |-> system_id, time |-> kill_time]>>,
     visited_system_ids |-> {system_id},
     classification |-> "activity", transitions |-> << >>,
     probability |-> 0, max_probability |-> 0,
     created_at |-> kill_time, last_kill_at |-> kill_time, last_activity_at |-> kill_time,
     has_smartbombs |-> FALSE, stargate_name |-> "", gate_kill_count |-> 0,
     prev_session_id |-> 0]

\* position of char_id in the members list, 0 when absent
MemberIndex(members, char_id) ==
    IF \E i \in DOMAIN members : members[i].character_id = char_id
    THEN CHOOSE i \in DOMAIN members : members[i].character_id = char_id
    ELSE 0

\* Crew.add_or_update_member, on the members list
add_or_update_member(members, a, kill_time) ==
    LET i == MemberIndex(members, a.character_id)
    IN  IF i # 0
        THEN [members EXCEPT
                ![i].last_seen = kill_time,
                ![i].kill_count = @ + 1,
                ![i].status = "active",
                ![i].ship_type_ids = IF a.ship_type_id # 0 THEN @ \cup {a.ship_type_id} ELSE @,
                ![i].corp_id = IF a.corporation_id # 0 THEN a.corporation_id ELSE @,
                ![i].alliance_id = IF a.alliance_id # 0 THEN a.alliance_id ELSE @]
        ELSE Append(members, MemberState(a.character_id, a.corporation_id,
                                         a.alliance_id, a.ship_type_id, kill_time))

\* a variant that never lets a member depart
update_member_statuses_NoDeparture(members, t_now) ==
    [i \in DOMAIN members |->
        IF members[i].status # "departed"
              /\ t_now - members[i].last_seen > MEMBER_IDLE_TIMEOUT_MS
        THEN [members[i] EXCEPT !.status = "idle"]
        ELSE members[i]]

\* Crew.update_member_statuses
update_member_statuses(members, t_now) ==
    [i \in DOMAIN members |->
        IF members[i].status = "departed" THEN members[i]
        ELSE IF t_now - members[i].last_seen > MEMBER_DEPARTED_TIMEOUT_MS
             THEN [members[i] EXCEPT !.status = "departed"]
        ELSE IF t_now - members[i].last_seen > MEMBER_IDLE_TIMEOUT_MS
             THEN [members[i] EXCEPT !.status = "idle"]
        ELSE members[i]]

\* Counter(values).most_common(1)[0][0]: the most frequent value, the first
\* one met among equally frequent ones; values is a non-empty sequence
MostCommon(values) ==
    LET count(v) == Cardinality({i \in DOMAIN values : values[i] = v})
        best == CHOOSE i \in DOMAIN values :
                   /\ \A j \in DOMAIN values : count(values[j]) <= count(values[i])
                   /\ \A j \in 1..(i - 1) : count(values[j]) < count(values[i])
    IN  values[best]

ActiveOrIdle(members) ==
    SelectSeq(members, LAMBDA m : m.status \in {"active", "idle"})

\* Crew.update_anchor
update_anchor(crew) ==
    LET active_members == ActiveOrIdle(crew.members)
        alliances == SelectSeq([i \in DOMAIN active_members |-> active_members[i].alliance_id],
                               LAMBDA v : v # 0)
        corps == SelectSeq([i \in DOMAIN active_members |-> active_members[i].corp_id],
                           LAMBDA v : v # 0)
    IN  IF active_members = << >> THEN crew
        ELSE [crew EXCEPT
                !.anchor_alliance_id = IF alliances # << >> THEN MostCommon(alliances) ELSE @,
                !.anchor_corp_id = IF corps # << >> THEN MostCommon(corps) ELSE @,
                !.anchor_corp_ids = Range(corps)]

active_count(crew) == Len(SelectSeq(crew.members, LAMBDA m : m.status = "active"))
idle_count(crew) == Len(SelectSeq(crew.members, LAMBDA m : m.status = "idle"))
departed_count(crew) == Len(SelectSeq(crew.members, LAMBDA m : m.status = "departed"))
total_member_count(crew) == Len(crew.members)

\* Crew.is_dissolving
is_dissolving(crew) ==
    /\ total_member_count(crew) >= 3
    /\ active_count(crew) * DISSOLUTION_ACTIVE_RATIO_DEN
          < DISSOLUTION_ACTIVE_RATIO_NUM * total_member_count(crew)
    /\ active_count(crew) < DISSOLUTION_MIN_ACTIVE

\* the class-dependent expiry timeout of update_activities / get_active_activities
ClassTimeout(classification) ==
    IF classification \in {"camp", "solo_camp", "smartbomb", "roaming_camp", "battle"}
    THEN CAMP_TIMEOUT_MS ELSE ROAM_TIMEOUT_MS

(***************************************************************************)
(* ActivityManager : spatial state, classification, probability            *)
(***************************************************************************)
IsPodKill(k) == k.victim.ship_type_id = CAPSULE_ID

\* ActivityManager._count_effective_kills: ship kills + orphan pod kills
RECURSIVE CountEffectiveFrom(_, _, _)
CountEffectiveFrom(kills, i, seen_ship_victims) ==
    IF i > Len(kills) THEN 0
    ELSE LET victim == Ev(kills[i]).victim
         IN  IF victim.ship_type_id # CAPSULE_ID
             THEN 1 + CountEffectiveFrom(kills, i + 1,
                        IF victim.character_id # 0
                        THEN seen_ship_victims \cup {victim.character_id}
                        ELSE seen_ship_victims)
             ELSE (IF victim.character_id = 0 \/ victim.character_id \notin seen_ship_victims
                   THEN 1 ELSE 0)
                  + CountEffectiveFrom(kills, i + 1, seen_ship_victims)

_count_effective_kills(crew) == CountEffectiveFrom(crew.kills, 1, {})

\* a variant that keeps the gate name whatever the ratio
GateRatioOf_KeepName(crew, effective_kills) == crew

\* the gate-ratio rule shared by _update_spatial_state and _merge_crews
GateRatioOf(crew, effective_kills) ==
    IF effective_kills > 0 /\ 2 * crew.gate_kill_count < effective_kills
    THEN [crew EXCEPT !.stargate_name = ""]
    ELSE crew

GateRatioCheck(crew) == GateRatioOf(crew, _count_effective_kills(crew))

\* a variant that appends to systems_visited and forgets visited_system_ids
VisitSystem_ListOnly(crew, system_id, kill_time) ==
    [crew EXCEPT
        !.systems_visited = IF crew.current_system_id # system_id
                            THEN Append(@, [id |-> system_id, time |-> kill_time])
                            ELSE @,
        !.current_system_id = system_id]

\* _update_spatial_state: the system history
VisitSystem(crew, system_id, kill_time) ==
    [crew EXCEPT
        !.systems_visited = IF crew.current_system_id # system_id
                            THEN Append(@, [id |-> system_id, time |-> kill_time])
                            ELSE @,
        !.current_system_id = system_id,
        !.visited_system_ids = @ \cup {system_id}]

\* _update_spatial_state: the gate kill count and the gate name
CountGateKill(crew, k, is_gate_kill, earlier_kills) ==
    [crew EXCEPT
        !.gate_kill_count = IF is_gate_kill /\ (~IsPodKill(k) \/ ~_is_followup_pod(k, earlier_kills))
                            THEN @ + 1 ELSE @,
        !.stargate_name = IF is_gate_kill /\ k.nearestCelestial # ""
                          THEN k.nearestCelestial ELSE @]

SpatialStateOf(crew, k, kill_time) ==
    GateRatioCheck(CountGateKill(VisitSystem(crew, k.solar_system_id, kill_time), k,
                                 _is_gate_camp_kill(k),
                                 SubSeq(crew.kills, 1, Len(crew.kills) - 1)))

\* ActivityManager._update_spatial_state, for the event of key e
_update_spatial_state(crew, e, kill_time) == SpatialStateOf(crew, Ev(e), kill_time)

\* ActivityManager._is_stationary_recent
_is_stationary_recent(crew) ==
    LET n == Len(crew.kills)
        recent == IF n > 5 THEN SubSeq(crew.kills, n - 4, n) ELSE crew.kills
    IN  Cardinality({Ev(recent[i]).solar_system_id : i \in DOMAIN recent}) <= 1

\* ActivityManager._has_interdictor_attacker
_has_interdictor_attacker(crew) ==
    \E i \in DOMAIN crew.members :
        /\ crew.members[i].status \in {"active", "idle"}
        /\ crew.members[i].ship_type_ids \cap INTERDICTOR_SHIP_IDS # {}

\* every kill of the crew has exactly one player attacker
IsSolo(crew) ==
    /\ crew.kills # << >>
    /\ \A i \in DOMAIN crew.kills : _attacker_count(Ev(crew.kills[i])) = 1

\* the classification rules of _derive_classification, in order
ClassificationOf(crew, participants, systems_count, is_at_gate, is_solo, stationary) ==
    IF crew.has_smartbombs /\ is_at_gate /\ stationary THEN "smartbomb"
    ELSE IF participants >= BATTLE_PARTICIPANT_THRESHOLD THEN "battle"
    ELSE IF is_solo /\ is_at_gate /\ _has_interdictor_attacker(crew) THEN "solo_camp"
    ELSE IF is_solo THEN "solo_roam"
    ELSE IF is_at_gate /\ crew.probability >= 5 /\ systems_count > 1 /\ stationary
         THEN "roaming_camp"
    ELSE IF is_at_gate /\ crew.probability >= 5 /\ (systems_count = 1 \/ stationary)
         THEN "camp"
    ELSE IF systems_count > 1 THEN "roam"
    ELSE "activity"

\* ActivityManager._derive_classification
_derive_classification(crew) ==
    ClassificationOf(crew, Len(ActiveOrIdle(crew.members)),
                     Cardinality(crew.visited_system_ids), crew.stargate_name # "",
                     IsSolo(crew), _is_stationary_recent(crew))

\* The ties of the final rounding.  round(base * 100) is taken on a binary
\* float, so a value that is exactly n + 1/2 in decimal goes up or down with
\* the float error of base * (1 - decay_pct).  The pairs <<capped base in bp,
\* tenths of decay>> for which python's result is the upper integer:
TieRoundsUp ==
    {
     <<150, 0>>, <<250, 4>>, <<300, 5>>, <<350, 0>>, <<500, 1>>, <<550, 0>>,
     <<700, 5>>, <<750, 0>>, <<950, 0>>, <<1100, 5>>, <<1150, 0>>, <<1250, 4>>,
     <<1350, 0>>, <<1500, 1>>, <<1500, 5>>, <<1550, 0>>, <<1750, 0>>, <<1900, 5>>,
     <<1950, 0>>, <<2150, 0>>, <<2250, 4>>, <<2300, 5>>, <<2350, 0>>, <<2500, 3>>,
     <<2550, 0>>, <<2700, 5>>, <<2750, 0>>, <<2950, 0>>, <<3100, 5>>, <<3150, 0>>,
     <<3250, 4>>, <<3350, 0>>, <<3500, 1>>, <<3500, 5>>, <<3550, 0>>, <<3750, 0>>,
     <<3900, 5>>, <<3950, 0>>, <<4150, 0>>, <<4250, 4>>, <<4300, 5>>, <<4350, 0>>,
     <<4500, 3>>, <<4550, 0>>, <<4700, 5>>, <<4750, 0>>, <<4950, 0>>, <<5100, 5>>,
     <<5150, 0>>, <<5250, 4>>, <<5350, 0>>, <<5450, 0>>, <<5500, 1>>, <<5500, 5>>,
     <<5550, 0>>, <<5900, 5>>, <<5950, 0>>, <<6150, 0>>, <<6250, 4>>, <<6300, 5>>,
     <<6350, 0>>, <<6500, 1>>, <<6550, 0>>, <<6700, 5>>, <<6750, 0>>, <<6950, 0>>,
     <<7100, 5>>, <<7150, 0>>, <<7250, 4>>, <<7350, 0>>, <<7500, 1>>, <<7500, 5>>,
     <<7550, 0>>, <<7750, 0>>, <<7900, 5>>, <<7950, 0>>, <<8150, 0>>, <<8300, 5>>,
     <<8350, 0>>, <<8500, 3>>, <<8550, 0>>, <<8700, 5>>, <<8750, 0>>, <<8950, 0>>,
     <<9100, 5>>, <<9150, 0>>, <<9250, 4>>, <<9350, 0>>, <<9500, 1>>, <<9500, 5>>
    }

\* round(capped * (10 - decay_tenths) / 10 / 100) as python computes it
RoundPct(capped, decay_tenths) ==
    LET x == (capped * (10 - decay_tenths)) \div 10
        q == x \div 100
        r == x % 100
    IN  IF r < 50 THEN q
        ELSE IF r > 50 THEN q + 1
        ELSE IF <<capped, decay_tenths>> \in TieRoundsUp THEN q + 1 ELSE q

Clamp(x, lo, hi) == Max2(lo, Min2(hi, x))

\* stage 1 of _calculate_camp_probability: is the kill kept for scoring
RelevantForProbability(k) ==
    /\ ~k.awox
    /\ ~((k.victim.corporation_id # 0 /\ k.victim.character_id = 0) \/ "npc" \in k.labels)
    /\ k.victim_category # "structure"
    /\ k.victim.ship_type_id # MTU_ID
    /\ (k.attackers = << >> \/ \E i \in DOMAIN k.attackers : k.attackers[i].character_id # 0)

AttackerChars(k) ==
    {k.attackers[i].character_id : i \in DOMAIN k.attackers} \ {0}

\* any consecutive pair of times less than 2 minutes apart
HasBurst(times) == \E i \in 2..Len(times) : times[i] - times[i - 1] < 2

\* the kill times of a sequence of killmails
KillTimes(kills, t_now) == [i \in DOMAIN kills |-> _kill_time_ms(kills[i], t_now)]

\* stage 1 of _calculate_camp_probability: the ship kills on a gate, by time
SortedByKillTime(kills, t_now) == StableSort(kills, KillTimes(kills, t_now))

ShipKillsByTime(relevant, t_now) ==
    SortedByKillTime(SelectSeq(relevant, LAMBDA k : ~IsPodKill(k)), t_now)

\* stage 2: the burst penalty
BurstScore(kill_times, camp_age) ==
    IF Len(kill_times) > 1 /\ camp_age <= 15 /\ HasBurst(kill_times)
    THEN 0 - BURST_PENALTY ELSE 0

\* stage 3: the threat ships
AttackerThreat(a) == IF a.ship_type_id # 0 THEN THREAT_SHIPS(a.ship_type_id) ELSE 0

KillThreat(k) == SumInts([i \in DOMAIN k.attackers |-> AttackerThreat(k.attackers[i])])

ThreatScore(relevant) == Min2(THREAT_SCORE_CAP, SumInts([i \in DOMAIN relevant |-> KillThreat(relevant[i])]))

\* stage 4: any(SMARTBOMB_SHIPS.get(...)) raises AttributeError on the first
\* attacker met (SMARTBOMB_SHIPS is a frozenset)
SmartbombStageRaises(crew) ==
    crew.has_smartbombs /\ \E i \in DOMAIN crew.kills : Ev(crew.kills[i]).attackers # << >>

SmartbombScore(crew) == IF crew.has_smartbombs THEN 1600 ELSE 0

\* stage 5: the known camping systems
KnownCampScore(crew) ==
    IF \E g \in PERMANENT_CAMPS_gates(crew.current_system_id) :
          NameContainsGate(g, crew.stargate_name)
    THEN PERMANENT_CAMPS_weight(crew.current_system_id) ELSE 0

\* stage 6: vulnerable victims
VulnerableScoreOf(vuln_count) ==
    IF vuln_count > 1 THEN 4000 ELSE IF vuln_count > 0 THEN 2000 ELSE 0

VulnerableScore(ship_kills) ==
    VulnerableScoreOf(Len(SelectSeq(ship_kills,
                                   LAMBDA k : k.victim_category \in {"industrial", "mining"})))

\* stage 7: the last three ship kills
LastThree(ship_kills) ==
    IF Len(ship_kills) > 3 THEN SubSeq(ship_kills, Len(ship_kills) - 2, Len(ship_kills))
    ELSE ship_kills

NonZero(values) == SelectSeq(values, LAMBDA v : v # 0)

AllOfOne(values, n) == Len(values) = n /\ Cardinality(Range(values)) = 1

\* a burst of kills on one victim corporation or alliance earns no bonus
SkipsConsistency(check, t_now) ==
    /\ HasBurst(KillTimes(check, t_now))
    /\ \/ AllOfOne(NonZero([i \in DOMAIN check |-> check[i].victim.corporation_id]), Len(check))
       \/ AllOfOne(NonZero([i \in DOMAIN check |-> check[i].victim.alliance_id]), Len(check))

ConsistentWith(latest, prev) ==
    /\ Cardinality(latest \cap prev) >= Max2(2, Cardinality(prev) \div 3)
    /\ Cardinality(latest \cap prev) >= 2

ConsistencyScore(check, t_now) ==
    IF Len(check) >= 2 /\ ~SkipsConsistency(check, t_now)
    THEN Min2(MAX_CONSISTENCY_BONUS,
              CONSISTENCY_BONUS
                * Cardinality({i \in 1..(Len(check) - 1) :
                                 ConsistentWith(AttackerChars(check[Len(check)]),
                                                AttackerChars(check[i]))}))
    ELSE 0

\* stage 8: kills more than 5 minutes apart
SpacedScore(kill_times) ==
    IF Len(kill_times) >= 2
    THEN Min2(MAX_WIDELY_SPACED_BONUS,
              WIDELY_SPACED_BONUS
                * Cardinality({i \in 2..Len(kill_times) : kill_times[i] - kill_times[i - 1] > 5}))
    ELSE 0

\* stage 9: orphan pods count 1, follow-up pods 1/2
IsFollowupOfShipKills(pk, ship_kills) ==
    /\ pk.victim.character_id # 0
    /\ \E i \in DOMAIN ship_kills :
          ship_kills[i].victim.character_id = pk.victim.character_id

PodScoreOf(pod_count, orphan_pod_count) ==
    Min2(MAX_POD_BONUS,
         (2 * orphan_pod_count + (pod_count - orphan_pod_count)) * (POD_BONUS_PER_KILL \div 2))

PodScore(pod_kills, ship_kills) ==
    PodScoreOf(Len(pod_kills),
               Len(SelectSeq(pod_kills, LAMBDA pk : ~IsFollowupOfShipKills(pk, ship_kills))))

\* stage 10: the sum of the stages, capped
CappedScore(crew, relevant, ship_kills, kill_times, t_now) ==
    Clamp(BurstScore(kill_times, t_now - crew.created_at)
            + ThreatScore(relevant)
            + SmartbombScore(crew)
            + KnownCampScore(crew)
            + VulnerableScore(ship_kills)
            + ConsistencyScore(LastThree(ship_kills), t_now)
            + SpacedScore(kill_times)
            + PodScore(SelectSeq(relevant, IsPodKill), ship_kills),
          0, OVERALL_PROB_CAP)

\* stage 11: the tenths of linear decay after DECAY_START_MS (10 % a minute)
DecayTenths(minutes_since) ==
    IF minutes_since > DECAY_START_MS THEN Min2(10, minutes_since - DECAY_START_MS) ELSE 0

\* stage 12: the percentage of the relevant kills
ScoreOfShipKills(crew, relevant, ship_kills, t_now) ==
    RoundPct(CappedScore(crew, relevant, ship_kills, KillTimes(ship_kills, t_now), t_now),
             DecayTenths(t_now - crew.last_kill_at))

\* a variant that returns percentages under MIN_PROB_THRESHOLD as they are
ProbabilityResult_NoFloor(crew, raised, pct) ==
    [raised |-> raised,
     pct |-> IF raised THEN 0 ELSE pct,
     max_probability |-> IF raised THEN crew.max_probability
                         ELSE Max2(crew.max_probability, pct)]

\* the result of _calculate_camp_probability:
\*   raised: the call ended in the AttributeError of stage 4, the crew is
\*           left untouched;
\*   pct: the returned probability;  max_probability: the crew's field after.
ProbabilityResult(crew, raised, pct) ==
    [raised |-> raised,
     pct |-> IF raised \/ pct < MIN_PROB_THRESHOLD THEN 0 ELSE pct,
     max_probability |-> IF raised \/ pct < MIN_PROB_THRESHOLD THEN crew.max_probability
                         ELSE Max2(crew.max_probability, pct)]

ProbabilityOfRelevant(crew, relevant, t_now) ==
    IF relevant = << >> THEN ProbabilityResult(crew, FALSE, 0)
    ELSE IF SmartbombStageRaises(crew) THEN ProbabilityResult(crew, TRUE, 0)
    ELSE ProbabilityResult(crew, FALSE,
            ScoreOfShipKills(crew, relevant, ShipKillsByTime(relevant, t_now), t_now))

\* a variant without the early return for a crew that has no gate name
_calculate_camp_probability_AnyPlace(crew, t_now) ==
    ProbabilityOfRelevant(
        crew,
        SelectSeq(SelectSeq([i \in DOMAIN crew.kills |-> Ev(crew.kills[i])],
                            RelevantForProbability),
                  _is_gate_camp_kill),
        t_now)

\* ActivityManager._calculate_camp_probability
_calculate_camp_probability(crew, t_now) ==
    IF crew.stargate_name = "" THEN ProbabilityResult(crew, FALSE, 0)
    ELSE ProbabilityOfRelevant(
            crew,
            SelectSeq(SelectSeq([i \in DOMAIN crew.kills |-> Ev(crew.kills[i])],
                                RelevantForProbability),
                      _is_gate_camp_kill),
            t_now)
(***************************************************************************)
(* ActivityManager : matching and merging                                  *)
(***************************************************************************)
\* The score of one crew for a kill, as the fraction num / (2000 * den)
MatchScore(crew, info, system_id, kill_time) ==
    LET active_member_ids ==
            {crew.members[i].character_id :
                i \in {j \in DOMAIN crew.members : crew.members[j].status \in {"active", "idle"}}}
        overlap == Cardinality(active_member_ids \cap info.chars)
        na == Cardinality(info.chars)
        nm == Cardinality(active_member_ids)
        den == IF overlap > 0 THEN na * nm ELSE 1
        char_num == IF overlap > 0
                    THEN overlap * nm * CHAR_OVERLAP_WEIGHT + overlap * na * 200
                    ELSE 0
        anchor == IF crew.anchor_alliance_id # 0 /\ info.alliances # {}
                  THEN (IF crew.anchor_alliance_id \in info.alliances THEN CORP_ALLIANCE_WEIGHT
                        ELSE IF crew.anchor_corp_ids \cap info.corps # {}
                             THEN (CORP_ALLIANCE_WEIGHT * 60) \div 100
                        ELSE 0)
                  ELSE IF crew.anchor_corp_id # 0 /\ info.corps # {}
                       THEN (IF crew.anchor_corp_id \in info.corps
                             THEN (CORP_ALLIANCE_WEIGHT * 80) \div 100 ELSE 0)
                  ELSE 0
        spatial == IF crew.current_system_id = system_id THEN SPATIAL_WEIGHT
                   ELSE IF _is_adjacent_system(crew.current_system_id, system_id)
                        THEN SPATIAL_WEIGHT \div 2
                   ELSE 0
        time_since == kill_time - crew.last_kill_at
        temporal == IF time_since < 10 THEN TEMPORAL_WEIGHT
                    ELSE IF time_since < 30 THEN TEMPORAL_WEIGHT \div 2
                    ELSE IF time_since > 120 THEN 0 - 300
                    ELSE 0
    IN  [num |-> char_num + (anchor + spatial + temporal) * den, den |-> den]

RECURSIVE ProductOfDens(_)
ProductOfDens(s) == IF s = << >> THEN 1 ELSE Head(s).den * ProductOfDens(Tail(s))

\* the matches by score descending, common being a common denominator
SortedByScore(results, common) ==
    StableSort(results, [i \in DOMAIN results |->
                            0 - results[i].num * (common \div results[i].den)])

PositionsOf(sorted) == [i \in DOMAIN sorted |-> sorted[i].pos]

MatchingOf(results) == PositionsOf(SortedByScore(results, ProductOfDens(results)))

ScoredAt(i, score) == [pos |-> i, num |-> score.num, den |-> score.den]

\* a variant that returns every crew, whatever its score
_find_all_matching_crews_NoThreshold(cs, info, system_id, kill_time) ==
    MatchingOf([i \in DOMAIN cs |->
                   ScoredAt(i, MatchScore(cs[i], info, system_id, kill_time))])

\* ActivityManager._find_all_matching_crews: the positions (in the crews
\* list) of the crews scoring >= MATCH_THRESHOLD, by score descending
_find_all_matching_crews(cs, info, system_id, kill_time) ==
    MatchingOf(SelectSeq([i \in DOMAIN cs |->
                            ScoredAt(i, MatchScore(cs[i], info, system_id, kill_time))],
                         LAMBDA r : r.num >= MATCH_THRESHOLD * r.den))

MergeTransition(primary, donor, merge_time) ==
    [from |-> [merge |-> TRUE, donor |-> donor.id, class |-> donor.classification],
     to |-> primary.classification, time |-> merge_time,
     systemId |-> primary.current_system_id, killId |-> 0]

KillIds(kills) == {Ev(kills[i]).killID : i \in DOMAIN kills}

TotalValueOf(kills) == SumInts([i \in DOMAIN kills |-> Ev(kills[i]).totalValue])

\* merge of the kill lists: dedup by killID, sort by kill time
WithKills(primary, merged) ==
    [primary EXCEPT !.kills = merged, !.total_value = TotalValueOf(merged)]

ChronologicalKills(kills, t_now) ==
    StableSort(kills, [i \in DOMAIN kills |-> _kill_time_ms(Ev(kills[i]), t_now)])

MergeNewKills(primary, new_kills, t_now) ==
    IF new_kills # << >>
    THEN WithKills(primary, ChronologicalKills(primary.kills \o new_kills, t_now))
    ELSE primary

MergeKills(primary, donor, t_now) ==
    MergeNewKills(primary,
                  SelectSeq(donor.kills, LAMBDA e : Ev(e).killID \notin KillIds(primary.kills)),
                  t_now)

\* a variant that forgets the donor's members
MergeMembersFrom_PrimaryOnly(members, donor_members, j) == members

\* merge of the member dicts, donor members taken in the donor's order
RECURSIVE MergeMembersFrom(_, _, _)
MergeMembersFrom(members, donor_members, j) ==
    IF j > Len(donor_members) THEN members
    ELSE LET donor_m == donor_members[j]
             i == MemberIndex(members, donor_m.character_id)
             merged ==
                IF i # 0
                THEN [members EXCEPT
                        ![i].last_seen = Max2(@, donor_m.last_seen),
                        ![i].status = IF donor_m.last_seen > members[i].last_seen
                                      THEN donor_m.status ELSE @,
                        ![i].kill_count = @ + donor_m.kill_count,
                        ![i].ship_type_ids = @ \cup donor_m.ship_type_ids,
                        ![i].first_seen = Min2(@, donor_m.first_seen),
                        ![i].corp_id = IF donor_m.corp_id # 0 THEN donor_m.corp_id ELSE @,
                        ![i].alliance_id = IF donor_m.alliance_id # 0
                                           THEN donor_m.alliance_id ELSE @]
                ELSE Append(members, donor_m)
         IN  MergeMembersFrom(merged, donor_members, j + 1)

\* the gate-kill recount over the merged kill list
CountsAsGateKill(k, earlier) ==
    _is_gate_camp_kill(k) /\ (~IsPodKill(k) \/ ~_is_followup_pod(k, earlier))

RederivedGateKillCount(kills, t_now) ==
    Cardinality({i \in DOMAIN kills :
        CountsAsGateKill(Ev(kills[i]),
                         SelectSeq(kills, LAMBDA ek : _kill_time_ms(Ev(ek), t_now)
                                                        < _kill_time_ms(Ev(kills[i]), t_now)))})

\* list.sort(key=lambda t: t["time"]) of transitions and of visited systems
SortedByTime(s) == StableSort(s, [i \in DOMAIN s |-> s[i].time])

\* the fields _merge_crews takes from the donor, with_kills being the
\* primary after the merge of the kill lists
MergeFields(primary, with_kills, donor, merge_time, t_now) ==
    [with_kills EXCEPT
        !.transitions =
            SortedByTime(Append(primary.transitions,
                                MergeTransition(primary, donor, merge_time))
                           \o donor.transitions),
        !.members = MergeMembersFrom(primary.members, donor.members, 1),
        !.systems_visited =
            SortedByTime(primary.systems_visited
                           \o SelectSeq(donor.systems_visited,
                                        LAMBDA sv : sv \notin Range(primary.systems_visited))),
        !.visited_system_ids = @ \cup donor.visited_system_ids,
        !.has_smartbombs = @ \/ donor.has_smartbombs,
        !.stargate_name = IF donor.stargate_name # "" /\ @ = ""
                          THEN donor.stargate_name ELSE @,
        !.created_at = Min2(@, donor.created_at),
        !.last_kill_at = Max2(@, donor.last_kill_at),
        !.last_activity_at = Max2(@, donor.last_activity_at),
        !.max_probability = Max2(@, donor.max_probability),
        !.prev_session_id =
            IF @ = 0 /\ Len(donor.kills) >= CREW_MIN_KILLS_TO_SAVE
            THEN donor.id ELSE @,
        !.gate_kill_count = RederivedGateKillCount(with_kills.kills, t_now)]

\* ActivityManager._merge_crews: the primary after absorbing the donor
_merge_crews(primary, donor, merge_time, t_now) ==
    GateRatioCheck(MergeFields(primary, MergeKills(primary, donor, t_now),
                               donor, merge_time, t_now))
(***************************************************************************)
(* ActivityManager : kill processing                                       *)
(***************************************************************************)
\* a variant that appends without looking at the ids already held
_add_kill_to_crew_NoDedup(crew, e, kill_time) ==
    [crew EXCEPT
        !.kills = Append(@, e),
        !.total_value = @ + Ev(e).totalValue,
        !.last_kill_at = kill_time,
        !.last_activity_at = kill_time]

\* ActivityManager._add_kill_to_crew, for the event of key e
_add_kill_to_crew(crew, e, kill_time) ==
    IF Ev(e).killID \in KillIds(crew.kills) THEN crew
    ELSE [crew EXCEPT
            !.kills = Append(@, e),
            !.total_value = @ + Ev(e).totalValue,
            !.last_kill_at = kill_time,
            !.last_activity_at = kill_time]

\* ActivityManager._update_members_from_kill, on the members list
RECURSIVE UpdateMembersFrom(_, _, _, _)
UpdateMembersFrom(members, attackers, j, kill_time) ==
    IF j > Len(attackers) THEN members
    ELSE UpdateMembersFrom(
            IF IsPlayerAttacker(attackers[j])
            THEN add_or_update_member(members, attackers[j], kill_time)
            ELSE members,
            attackers, j + 1, kill_time)

_update_members_from_kill(crew, k, kill_time) ==
    [crew EXCEPT !.members = UpdateMembersFrom(@, k.attackers, 1, kill_time)]

\* ActivityManager._record_transition
_record_transition(crew, prev_class, kill_time, system_id, kill_id) ==
    [crew EXCEPT !.transitions =
        Append(@, [from |-> [merge |-> FALSE, donor |-> 0, class |-> prev_class],
                   to |-> crew.classification, time |-> kill_time,
                   systemId |-> system_id, killId |-> kill_id])]

\* the matches of process_killmail, largest kill count first
LargestFirst(cs, matches) ==
    StableSort(matches, [i \in DOMAIN matches |-> 0 - Len(cs[matches[i]].kills)])

MatchesByKillCount(cs, k, kill_time) ==
    LargestFirst(cs, _find_all_matching_crews(cs, _extract_attacker_info(k),
                                              k.solar_system_id, kill_time))

\* the primary after absorbing matches[2..j], in that order
RECURSIVE AbsorbDonors(_, _, _, _, _)
AbsorbDonors(cs, matches, j, kill_time, t_now) ==
    IF j = 1 THEN cs[matches[1]]
    ELSE _merge_crews(AbsorbDonors(cs, matches, j - 1, kill_time, t_now),
                      cs[matches[j]], kill_time, t_now)

\* a variant that deletes nothing
RemovePositions_KeepAll(cs, gone) == cs

\* the crews list with the positions in gone removed
RemovePositions(cs, gone) ==
    LET keep == {i \in DOMAIN cs : i \notin gone}
        nth(n) == CHOOSE i \in keep : Cardinality({j \in keep : j < i}) = n - 1
    IN  [n \in 1..Cardinality(keep) |-> cs[nth(n)]]

\* the probability fields after _calculate_camp_probability returned p
Scored(crew, p) ==
    [crew EXCEPT !.probability = p.pct, !.max_probability = p.max_probability]

Classified(crew) == [crew EXCEPT !.classification = _derive_classification(crew)]

\* step 5 of process_killmail: a transition when the classification changed
WithTransition(before, classed, k, kill_time) ==
    IF classed.classification # before.classification
    THEN _record_transition(classed, before.classification, kill_time,
                            k.solar_system_id, k.killID)
    ELSE classed

\* steps 4 and 5, p being the result of _calculate_camp_probability.
\* raised: the probability computation raised, leaving probability,
\* classification and transitions as they were
FinishSelectedCrew(before, flagged, p, k, kill_time) ==
    IF p.raised THEN [crew |-> flagged, raised |-> TRUE]
    ELSE [crew |-> WithTransition(before, Classified(Scored(flagged, p)), k, kill_time),
          raised |-> FALSE]

ScoreSelectedCrew(before, flagged, k, kill_time, t_now) ==
    FinishSelectedCrew(before, flagged, _calculate_camp_probability(flagged, t_now),
                       k, kill_time)

Flagged(crew, k) ==
    IF _has_smartbombs(k) THEN [crew EXCEPT !.has_smartbombs = TRUE] ELSE crew

\* step 3: kill, members, anchor, spatial state, smartbomb flag
WithKill(crew, e, k, kill_time) ==
    Flagged(_update_spatial_state(
                update_anchor(_update_members_from_kill(
                    _add_kill_to_crew(crew, e, kill_time), k, kill_time)),
                e, kill_time),
            k)

UpdateSelectedCrewWith(crew, e, k, kill_time, t_now) ==
    ScoreSelectedCrew(crew, WithKill(crew, e, k, kill_time), k, kill_time, t_now)

\* steps 3 to 5 of process_killmail on the selected crew
UpdateSelectedCrew(crew, e, kill_time, t_now) ==
    UpdateSelectedCrewWith(crew, e, Ev(e), kill_time, t_now)

\* step 2 of process_killmail: the crew the kill goes to
SelectedCrew(cs, matches, k, kill_time, t_now, fresh) ==
    IF Len(matches) >= 2 THEN AbsorbDonors(cs, matches, Len(matches), kill_time, t_now)
    ELSE IF Len(matches) = 1 THEN cs[matches[1]]
    ELSE Crew(fresh, k.solar_system_id, kill_time)

\* self._crews after the ingest: a new crew is appended, donors are deleted
StoreCrew(cs, matches, updated) ==
    IF matches = << >>
    THEN [crews |-> Append(cs, updated.crew), created |-> TRUE, raised |-> updated.raised]
    ELSE [crews |-> RemovePositions([cs EXCEPT ![matches[1]] = updated.crew],
                                    {matches[j] : j \in 2..Len(matches)}),
          created |-> FALSE, raised |-> updated.raised]

ProcessMatched(cs, e, k, kill_time, matches, t_now, fresh) ==
    StoreCrew(cs, matches,
              UpdateSelectedCrew(SelectedCrew(cs, matches, k, kill_time, t_now, fresh),
                                 e, kill_time, t_now))

\* self._crews when process_killmail has done its steps 1 to 3 and is about
\* to compute the probability; id: the crew the kill went to
AppliedTo(cs, matches, crew) ==
    [crews |-> StoreCrew(cs, matches, [crew |-> crew, raised |-> FALSE]).crews,
     created |-> matches = << >>, id |-> crew.id]

ApplyKill(cs, e, k, kill_time, t_now, fresh) ==
    LET matches == MatchesByKillCount(cs, k, kill_time)
    IN  AppliedTo(cs, matches,
                  WithKill(SelectedCrew(cs, matches, k, kill_time, t_now, fresh),
                           e, k, kill_time))

ProcessAt(cs, e, k, kill_time, t_now, fresh) ==
    IF _extract_attacker_info(k).chars = {}
    THEN [crews |-> cs, created |-> FALSE, raised |-> FALSE]
    ELSE ProcessMatched(cs, e, k, kill_time, MatchesByKillCount(cs, k, kill_time),
                        t_now, fresh)

\* ActivityManager.process_killmail for the event of key e at clock t_now,
\* fresh being the id a new crew would get
process_killmail(cs, e, t_now, fresh) ==
    ProcessAt(cs, e, Ev(e), _kill_time_ms(Ev(e), t_now), t_now, fresh)

(***************************************************************************)
(* Serialization, periodic update, archive queue                           *)
(***************************************************************************)
\* _serialize_crew raises KeyError on crew.kills[-1]["killmail"]["killmail_time"]
\* when the last kill has no killmail_time
SerializeRaises(crew) ==
    crew.kills # << >> /\ Ev(crew.kills[Len(crew.kills)]).killmail_time = NoTime

\* _serialize_crew: the fields of the serialized record
_serialize_crew(crew) ==
    [id |-> crew.id,
     classification |-> crew.classification,
     systemId |-> crew.current_system_id,
     stargateName |-> crew.stargate_name,
     kills |-> [i \in DOMAIN crew.kills |-> Ev(crew.kills[i]).killID],
     totalValue |-> crew.total_value,
     firstKillTime |-> crew.created_at,
     lastActivity |-> crew.last_activity_at,
     probability |-> crew.probability,
     maxProbability |-> crew.max_probability,
     visitedSystems |-> crew.visited_system_ids,
     members |-> [i \in DOMAIN crew.members |-> crew.members[i].character_id],
     systems |-> crew.systems_visited,
     anchorCorpId |-> crew.anchor_corp_id,
     anchorAllianceId |-> crew.anchor_alliance_id,
     activeMembers |-> active_count(crew),
     idleMembers |-> idle_count(crew),
     departedMembers |-> departed_count(crew),
     transitions |-> crew.transitions]

\* update_activities: a crew past its class timeout is dropped, archived
\* with CREW_MIN_KILLS_TO_SAVE kills
ExpireCrew(acc, crew) ==
    IF Len(crew.kills) >= CREW_MIN_KILLS_TO_SAVE
    THEN IF SerializeRaises(crew)
         THEN [acc EXCEPT !.raised = TRUE]
         ELSE [acc EXCEPT !.queue = Append(@, _serialize_crew(crew)), !.changed = TRUE]
    ELSE [acc EXCEPT !.changed = TRUE]

\* update_activities: a dissolving crew with CREW_MIN_KILLS_TO_SAVE kills
DissolveCrew(acc, i, aged) ==
    IF SerializeRaises(aged)
    THEN [acc EXCEPT !.crews[i] = aged, !.raised = TRUE]
    ELSE [acc EXCEPT !.crews[i] = aged,
                     !.queue = Append(@, _serialize_crew(aged)),
                     !.changed = TRUE]

KeepClassed(acc, i, crew, classed) ==
    [acc EXCEPT !.crews[i] = classed,
                !.keep = @ \cup {i},
                !.changed = @ \/ classed.probability # crew.probability
                              \/ classed.classification # crew.classification]

\* update_activities: a crew that stays, p being its new probability
KeepCrew(acc, i, crew, aged, p) ==
    IF p.raised THEN [acc EXCEPT !.crews[i] = aged, !.raised = TRUE]
    ELSE KeepClassed(acc, i, crew, Classified(Scored(aged, p)))

\* the body of the loop of update_activities for the crew at position i,
\* aged being the crew after update_member_statuses
UpdateOneCrew(acc, i, crew, aged, t_now) ==
    IF t_now - crew.last_activity_at > ClassTimeout(crew.classification)
    THEN ExpireCrew(acc, crew)
    ELSE IF is_dissolving(aged) /\ Len(aged.kills) >= CREW_MIN_KILLS_TO_SAVE
    THEN DissolveCrew(acc, i, aged)
    ELSE KeepCrew(acc, i, crew, aged, _calculate_camp_probability(aged, t_now))

Aged(crew, t_now) == [crew EXCEPT !.members = update_member_statuses(@, t_now)]

\* ActivityManager.update_activities from position i on.  acc holds
\*   crews: self._crews, with the in-place updates made so far;
\*   keep: the positions put in to_keep;  queue: self._expired_queue;
\*   raised: an exception ended the loop (self._crews is then not replaced)
RECURSIVE UpdateActivitiesFrom(_, _, _)
UpdateActivitiesFrom(acc, i, t_now) ==
    IF i > Len(acc.crews) \/ acc.raised THEN acc
    ELSE UpdateActivitiesFrom(
            UpdateOneCrew(acc, i, acc.crews[i], Aged(acc.crews[i], t_now), t_now),
            i + 1, t_now)

\* self._crews = to_keep, unless the loop raised
ReplaceCrews(acc) ==
    [crews |-> IF acc.raised THEN acc.crews
               ELSE RemovePositions(acc.crews, DOMAIN acc.crews \ acc.keep),
     queue |-> acc.queue, changed |-> acc.changed, raised |-> acc.raised]

\* ActivityManager.update_activities
update_activities(cs, queue, t_now) ==
    ReplaceCrews(UpdateActivitiesFrom([crews |-> cs, keep |-> {}, queue |-> queue,
                                       changed |-> FALSE, raised |-> FALSE], 1, t_now))

\* ActivityManager.get_active_activities: the crews within their class
\* timeout, by (-probability, -last_activity_at)
ByProbabilityThenActivity(cs) ==
    StableSort(cs, [i \in DOMAIN cs |->
                      0 - (cs[i].probability * 1000000 + cs[i].last_activity_at)])

ActiveCrewsSorted(cs, t_now) ==
    ByProbabilityThenActivity(
        SelectSeq(cs, LAMBDA c : t_now - c.last_activity_at <= ClassTimeout(c.classification)))

\* raised: a _serialize_crew call raised, nothing is returned
SerializedCrews(cs, result) ==
    IF \E i \in DOMAIN result : SerializeRaises(result[i])
    THEN [crews |-> cs, result |-> << >>, raised |-> TRUE]
    ELSE [crews |-> cs, result |-> [i \in DOMAIN result |-> _serialize_crew(result[i])],
          raised |-> FALSE]

\* a variant that evicts the crews it filters out
get_active_activities_Evicting(cs, t_now) ==
    SerializedCrews(SelectSeq(cs, LAMBDA c : t_now - c.last_activity_at
                                                <= ClassTimeout(c.classification)),
                    ActiveCrewsSorted(cs, t_now))

\* ActivityManager.get_active_activities
get_active_activities(cs, t_now) == SerializedCrews(cs, ActiveCrewsSorted(cs, t_now))

\* a variant that returns the queue without clearing it
pop_expired_NoClear(queue) == [expired |-> queue, queue |-> queue]

\* ActivityManager.pop_expired
pop_expired(queue) == [expired |-> queue, queue |-> << >>]

(***************************************************************************)
(* The engine as a state machine                                           *)
(***************************************************************************)
\* the number of process_killmail calls of a run
MaxIngests == 4

\* the number of process_killmail calls of a deep run
MaxDeepIngests == 5

\* update_activities is not called while the archiver has left this many
\* records in the queue
MaxQueue == 3

\* killmail tasks alive at once
MaxTasks == 3

\* the readings of the clock (_now_ms) at which the engine is called
ClockReadings == {0, 5, 16, 31, 35, 50}

NoOp(kind) == [kind |-> kind, e |-> 0, raised |-> FALSE, result |-> << >>]

\* activity_update_loop before its first iteration.  pc: asleep, inside
\* save_expired_activity, or stopped; batch: the popped records not yet passed
\* to save_expired_activity; made: the ids of the records update_activities
\* has queued; passed: the ids passed to save_expired_activity, in order
TickerStart ==
    [pc |-> "sleep", batch |-> << >>, made |-> {}, passed |-> << >>]

\* the killmail tasks before the first package.  tasks: per task where it is
\* and the key of its package; seen: processed_kill_ids; rows: the table
\* processed_kill_ids; fed: the keys handed to activity_manager, in order
IntakeStart ==
    [tasks |-> [t \in 1..MaxTasks |-> [pc |-> "free", e |-> 0]],
     seen |-> {}, rows |-> {}, fed |-> << >>]

Init ==
    /\ crews = << >>
    /\ expired_queue = << >>
    /\ now = 0
    /\ next_id = 1
    /\ ingests = 0
    /\ op = NoOp("init")
    /\ inflight = [e |-> 0, id |-> 0, torn |-> FALSE]
    /\ ticker = TickerStart
    /\ intake = IntakeStart

\* the feed delivers the killmail of key e (not before it happened)
Delivered(e, r) ==
    /\ crews' = r.crews
    /\ next_id' = IF r.created THEN next_id + 1 ELSE next_id
    /\ op' = [NoOp("ingest") EXCEPT !.e = e, !.raised = r.raised]

Deliver(e) ==
    /\ Ev(e).killmail_time <= now
    /\ Delivered(e, process_killmail(crews, e, now, next_id))
    /\ ingests' = ingests + 1
    /\ UNCHANGED <<expired_queue, now, inflight, ticker, intake>>

Ingest(e) == ingests < MaxIngests /\ Deliver(e)

IngestDeep(e) == ingests < MaxDeepIngests /\ Deliver(e)

\* time passes
Advance ==
    /\ \E t \in ClockReadings : t > now /\ now' = t
    /\ op' = NoOp("advance")
    /\ UNCHANGED <<crews, expired_queue, next_id, ingests, inflight, ticker, intake>>

\* the ticker calls update_activities
Ticked(r) ==
    /\ crews' = r.crews
    /\ expired_queue' = r.queue
    /\ op' = [NoOp("tick") EXCEPT !.raised = r.raised]

Tick ==
    /\ Len(expired_queue) < MaxQueue
    /\ Ticked(update_activities(crews, expired_queue, now))
    /\ UNCHANGED <<now, next_id, ingests, inflight, ticker, intake>>

\* a reader calls get_active_activities
Snapshotted(r) ==
    /\ crews' = r.crews
    /\ op' = [NoOp("snapshot") EXCEPT !.raised = r.raised, !.result = r.result]

Snapshot ==
    /\ Snapshotted(get_active_activities(crews, now))
    /\ UNCHANGED <<expired_queue, now, next_id, ingests, inflight, ticker, intake>>

\* the archiver calls pop_expired
Popped(r) ==
    /\ expired_queue' = r.queue
    /\ op' = [NoOp("pop") EXCEPT !.result = r.expired]

PopExpired ==
    /\ Popped(pop_expired(expired_queue))
    /\ UNCHANGED <<crews, now, next_id, ingests, inflight, ticker, intake>>

\* two crews on one gate, a bridging kill, a follow-up pod
Feed == {1, 3, 4, 5, 14}

Next ==
    \/ \E e \in Feed : Ingest(e)
    \/ Advance
    \/ Tick

Spec == Init /\ [][Next]_vars

\* the same feed, one killmail deeper
NextDeep ==
    \/ \E e \in Feed : IngestDeep(e)
    \/ Advance
    \/ Tick

SpecDeep == Init /\ [][NextDeep]_vars

\* NPC-only and malformed killmails among well-formed ones
FeedFilter == {1, 6, 8, 9, 10, 11}

NextFilter ==
    \/ \E e \in FeedFilter : Ingest(e)
    \/ Advance
    \/ Tick
    \/ Snapshot

SpecFilter == Init /\ [][NextFilter]_vars

\* a crew that moves system and loses members, and a smartbomber
FeedDrift == {1, 2, 7, 13}

NextDrift ==
    \/ \E e \in FeedDrift : IngestDeep(e)
    \/ Advance
    \/ Tick

SpecDrift == Init /\ [][NextDrift]_vars

\* readers and the archiver beside the feed and the ticker
FeedRead == {1, 3, 5, 9}

NextRead ==
    \/ \E e \in FeedRead : Ingest(e)
    \/ Advance
    \/ Tick
    \/ Snapshot
    \/ PopExpired

SpecRead == Init /\ [][NextRead]_vars

\* killmails consumed in arrival order: three gangs of two kills each, then
\* the kill that bridges them
Backlog == <<1, 5, 3, 14, 15, 16, 17>>

IngestNext == ingests < Len(Backlog) /\ Deliver(Backlog[ingests + 1])

NextBacklog ==
    \/ IngestNext
    \/ Advance
    \/ Tick

SpecBacklog == Init /\ [][NextBacklog]_vars

\* a gang camping a gate, then a smartbomb kill by two of its pilots
FeedBomb == {3, 4, 18, 21}

NextBomb ==
    \/ \E e \in FeedBomb : Ingest(e)
    \/ Advance
    \/ Tick

SpecBomb == Init /\ [][NextBomb]_vars

\* a lone Sabre pilot and a smartbombing Machariel that keeps killing, under
\* a ticker and an archiver that keep running while time passes
FeedEvict == {1, 7, 22}

NextEvict ==
    \/ \E e \in FeedEvict : Ingest(e)
    \/ Advance
    \/ Tick
    \/ PopExpired

\* a call of update_activities would change nothing (or the queue is at its bound)
TickIdle ==
    \/ Len(expired_queue) >= MaxQueue
    \/ /\ update_activities(crews, expired_queue, now).crews = crews
       /\ update_activities(crews, expired_queue, now).queue = expired_queue
       /\ op = [NoOp("tick") EXCEPT
                   !.raised = update_activities(crews, expired_queue, now).raised]

\* weak fairness of the ticker, with TickIdle for ~ENABLED <<Tick>>_vars
TickerRuns == []<><<Tick>>_vars \/ []<>TickIdle

SpecEvict ==
    Init /\ [][NextEvict]_vars /\ WF_vars(Advance) /\ WF_vars(PopExpired) /\ TickerRuns

\* a gang whose pilots stop shooting one after the other, under a clock read
\* around the ends of the burst window, the decay and the timeouts
FeedAging == {4, 12, 17, 19, 20}

AgingReadings == {16, 20, 21, 42, 50, 81}

AdvanceAging ==
    /\ \E t \in AgingReadings : t > now /\ now' = t
    /\ op' = NoOp("advance")
    /\ UNCHANGED <<crews, expired_queue, next_id, ingests, inflight, ticker, intake>>

NextAging ==
    \/ \E e \in FeedAging : Ingest(e)
    \/ AdvanceAging
    \/ Tick

SpecAging == Init /\ [][NextAging]_vars

\* server.py save_expired_activity: activity.get("prev_session_id") on a
\* record of the archive queue
SavedPrevSessionId(activity) ==
    IF "prev_session_id" \in DOMAIN activity THEN activity.prev_session_id ELSE 0

(***************************************************************************)
(* server.py: the tasks of the event loop.  A task keeps the loop from one *)
(* await to the next; process_killmail is taken in two pieces, up to and   *)
(* from the probability computation.                                       *)
(***************************************************************************)
\* inflight: the process_killmail call that is between its first and its last
\* statement (e = 0: none), the crew it works on, and torn: self._crews holds
\* what a call that did not reach its end has written
\*
\* the engine awaits nothing between the first and the last statement of a
\* call
EngineAwaits == FALSE

\* the event loop can hand over to another task
Schedulable == inflight.e = 0 \/ EngineAwaits

\* a killmail task enters activity_manager.process_killmail: steps 1 to 3
Began(e, r) ==
    /\ crews' = r.crews
    /\ next_id' = IF r.created THEN next_id + 1 ELSE next_id
    /\ inflight' = [e |-> e, id |-> r.id, torn |-> TRUE]
    /\ op' = [NoOp("begin") EXCEPT !.e = e]

BeginProcess(e) ==
    /\ Schedulable
    /\ inflight.e = 0
    /\ ingests < MaxIngests
    /\ Ev(e).killmail_time <= now
    /\ _extract_attacker_info(Ev(e)).chars # {}
    /\ Began(e, ApplyKill(crews, e, Ev(e), _kill_time_ms(Ev(e), now), now, next_id))
    /\ ingests' = ingests + 1
    /\ UNCHANGED <<expired_queue, now, ticker, intake>>

\* steps 4 and 5 on the crew at position pos; an exception ends the call
Finished(pos, r) ==
    /\ crews' = [crews EXCEPT ![pos] = r.crew]
    /\ inflight' = [e |-> 0, id |-> 0, torn |-> r.raised]
    /\ op' = [NoOp("ingest") EXCEPT !.e = inflight.e, !.raised = r.raised]

FinishProcess ==
    /\ inflight.e # 0
    /\ \E pos \in DOMAIN crews :
          /\ crews[pos].id = inflight.id
          /\ Finished(pos, ScoreSelectedCrew(crews[pos], crews[pos], Ev(inflight.e),
                                             _kill_time_ms(Ev(inflight.e), now), now))
    /\ UNCHANGED <<expired_queue, now, next_id, ingests, ticker, intake>>

\* a gang camping a gate, a smartbomb kill by its pilots, the ticker and
\* the readers
FeedServer == {4, 18}

NextServer ==
    \/ \E e \in FeedServer : BeginProcess(e)
    \/ FinishProcess
    \/ Schedulable /\ Advance
    \/ Schedulable /\ Tick
    \/ Schedulable /\ Snapshot
    \/ Schedulable /\ PopExpired

SpecServer == Init /\ [][NextServer]_vars

(***************************************************************************)
(* server.py: activity_update_loop and the archive sink                    *)
(***************************************************************************)
\* the loop calls save_expired_activity on the first record of a batch, which
\* runs to its first await
Passing(t, batch) ==
    IF batch = << >> THEN [t EXCEPT !.pc = "sleep", !.batch = << >>]
    ELSE [t EXCEPT !.pc = "save", !.batch = Tail(batch),
                   !.passed = Append(@, Head(batch).id)]

\* one iteration up to its first await: update_activities, and when it
\* returned changed, pop_expired and the first save_expired_activity.  An
\* exception of update_activities is logged by the loop, which sleeps again
\* with the queue as the call left it
Woken(r) ==
    /\ crews' = r.crews
    /\ expired_queue' = IF ~r.raised /\ r.changed THEN pop_expired(r.queue).queue
                        ELSE r.queue
    /\ ticker' = Passing([ticker EXCEPT
                             !.made = @ \cup {r.queue[j].id :
                                                j \in (Len(expired_queue) + 1)..Len(r.queue)}],
                         IF ~r.raised /\ r.changed THEN pop_expired(r.queue).expired
                         ELSE << >>)
    /\ op' = [NoOp("tick") EXCEPT !.raised = r.raised]

TickerWake ==
    /\ ticker.pc = "sleep"
    /\ Len(expired_queue) < MaxQueue
    /\ Woken(update_activities(crews, expired_queue, now))
    /\ UNCHANGED <<now, next_id, ingests, inflight, intake>>

\* save_expired_activity returns, having stored the record or logged the
\* failed insert; the loop goes on with the next record of the batch
SaveReturns(ok) ==
    /\ ticker.pc = "save"
    /\ ticker' = Passing(ticker, ticker.batch)
    /\ op' = [NoOp("save") EXCEPT !.raised = ~ok]
    /\ UNCHANGED <<crews, expired_queue, now, next_id, ingests, inflight, intake>>

\* update_task.cancel(): CancelledError at the await the loop is at
CancelTicker ==
    /\ ticker.pc \in {"sleep", "save"}
    /\ ticker' = [ticker EXCEPT !.pc = "stopped", !.batch = << >>]
    /\ op' = NoOp("cancel")
    /\ UNCHANGED <<crews, expired_queue, now, next_id, ingests, inflight, intake>>

\* two gangs of two kills each, archived by the ticker
FeedArchive == {1, 3, 5, 14}

NextArchive ==
    \/ \E e \in FeedArchive : Ingest(e)
    \/ Advance
    \/ TickerWake
    \/ \E ok \in BOOLEAN : SaveReturns(ok)
    \/ CancelTicker

SpecArchive == Init /\ [][NextArchive]_vars

(***************************************************************************)
(* server.py: process_killmail, one task per package, and cleanup_loop     *)
(***************************************************************************)
\* the checks before the dedup: kill id, required fields, at most 6 hours old
Refused(k, t_now) ==
    \/ k.killID = 0
    \/ k.killmail_time = NoTime
    \/ k.solar_system_id = 0
    \/ k.attackers = << >>
    \/ t_now - k.killmail_time > 360

\* a variant of the table without its primary key
InsertKillId_NoKey(rows, kill_id, at) ==
    [rows |-> rows \cup {[kill_id |-> kill_id, processed_at |-> at]}, ok |-> TRUE]

\* INSERT INTO processed_kill_ids: kill_id is the primary key; ok is FALSE
\* for UniqueViolationError
InsertKillId(rows, kill_id, at) ==
    IF \E r \in rows : r.kill_id = kill_id
    THEN [rows |-> rows, ok |-> FALSE]
    ELSE [rows |-> rows \cup {[kill_id |-> kill_id, processed_at |-> at]}, ok |-> TRUE]

\* poll_redisq_loop creates a task for the package of key e; the task runs to
\* its first await, the insert, unless it returns before
Spawn(t, e) ==
    /\ intake.tasks[t].pc = "free"
    /\ \A u \in 1..(t - 1) : intake.tasks[u].pc # "free"
    /\ Ev(e).killmail_time <= now
    /\ intake' = [intake EXCEPT
                    !.tasks[t] = [pc |-> IF \/ Refused(Ev(e), now)
                                            \/ Ev(e).killID \in intake.seen
                                         THEN "done" ELSE "insert",
                                  e |-> e]]
    /\ op' = [NoOp("spawn") EXCEPT !.e = e]
    /\ UNCHANGED <<crews, expired_queue, now, next_id, ingests, inflight, ticker>>

\* the insert of task t is executed; the task goes on to the await of
\* add_ship_categories, or returns on UniqueViolationError
Inserted(t, r) ==
    /\ intake' = [intake EXCEPT
                    !.rows = r.rows,
                    !.seen = @ \cup {Ev(intake.tasks[t].e).killID},
                    !.tasks[t].pc = IF r.ok THEN "enrich" ELSE "done"]
    /\ op' = [NoOp("insert") EXCEPT !.e = intake.tasks[t].e, !.raised = ~r.ok]

Insert(t) ==
    /\ intake.tasks[t].pc = "insert"
    /\ Inserted(t, InsertKillId(intake.rows, Ev(intake.tasks[t].e).killID, now))
    /\ UNCHANGED <<crews, expired_queue, now, next_id, ingests, inflight, ticker>>

\* steps 5 and 6 of task t: activity_manager.process_killmail(killmail)
Feeds(t) ==
    /\ intake.tasks[t].pc = "enrich"
    /\ Delivered(intake.tasks[t].e, process_killmail(crews, intake.tasks[t].e, now, next_id))
    /\ ingests' = ingests + 1
    /\ intake' = [intake EXCEPT !.fed = Append(@, intake.tasks[t].e),
                                !.tasks[t].pc = "done"]
    /\ UNCHANGED <<expired_queue, now, inflight, ticker>>

\* cleanup_loop: rows older than 12 hours are deleted, processed_kill_ids is
\* cleared
Cleanup ==
    /\ intake' = [intake EXCEPT
                    !.rows = {r \in @ : now - r.processed_at <= 720},
                    !.seen = {}]
    /\ op' = NoOp("cleanup")
    /\ UNCHANGED <<crews, expired_queue, now, next_id, ingests, inflight, ticker>>

\* two packages, each delivered more than once, under a clock read within
\* the hour, after 6 hours and after 12 hours
FeedIntake == {1, 4}

IntakeReadings == {0, 5, 400, 800}

\* time passes; no await of a task lasts the 6 hours of the time check
AdvanceIntake ==
    /\ \E t \in IntakeReadings :
          /\ t > now
          /\ t - now < 360 \/ \A u \in 1..MaxTasks : intake.tasks[u].pc \notin {"insert", "enrich"}
          /\ now' = t
    /\ op' = NoOp("advance")
    /\ UNCHANGED <<crews, expired_queue, next_id, ingests, inflight, ticker, intake>>

NextIntake ==
    \/ \E t \in 1..MaxTasks : \E e \in FeedIntake : Spawn(t, e)
    \/ \E t \in 1..MaxTasks : Insert(t)
    \/ \E t \in 1..MaxTasks : Feeds(t)
    \/ Cleanup
    \/ AdvanceIntake

SpecIntake == Init /\ [][NextIntake]_vars
(***************************************************************************)
(* The claims of the specification                                         *)
(***************************************************************************)
CrewIds(cs) == {cs[i].id : i \in DOMAIN cs}

\* the crews of cs holding the kill of id kill_id
Holders(cs, kill_id) == {i \in DOMAIN cs : kill_id \in KillIds(cs[i].kills)}

\* the ids of the records a step appends to the archive queue
Archived == {expired_queue'[j].id : j \in (Len(expired_queue) + 1)..Len(expired_queue')}

\* the crews a step removes from the live set
Removed == {i \in DOMAIN crews : crews[i].id \notin CrewIds(crews')}

\* an attacker with a character id flying something other than a capsule
HasValidPlayer(k) ==
    \E i \in DOMAIN k.attackers :
        k.attackers[i].character_id # 0 /\ k.attackers[i].ship_type_id # CAPSULE_ID

\* no killID, no killmail_time, no solar_system_id, or no attackers at all
Malformed(k) ==
    k.killID = 0 \/ k.killmail_time = NoTime \/ k.solar_system_id = 0 \/ k.attackers = << >>

HasMergeTransition(crew) ==
    \E t \in DOMAIN crew.transitions : crew.transitions[t].from.merge

\* C1: process_killmail(e) called a second time, right after the first,
\* leaves the live crews as the first call left them.
C1_IdempotentIngest ==
    [][(op.kind = "ingest" /\ op'.kind = "ingest" /\ op'.e = op.e) => crews' = crews]_vars

\* C2: in every reachable state no killID is in the kills of two different
\* live crews.
C2_NoKillInTwoCrews ==
    \A i, j \in DOMAIN crews :
        i # j => KillIds(crews[i].kills) \cap KillIds(crews[j].kills) = {}

\* C3: in every reachable state no killID appears twice in the kills of a
\* crew, and after the ingest of an event with a valid player attacker some
\* crew holds its killID.
C3_PerCrewKillDedup ==
    /\ \A i \in DOMAIN crews : \A a, b \in DOMAIN crews[i].kills :
          a # b => Ev(crews[i].kills[a]).killID # Ev(crews[i].kills[b]).killID
    /\ (op.kind = "ingest" /\ HasValidPlayer(Ev(op.e)))
          => Holders(crews, Ev(op.e).killID) # {}

\* a delivery lands in a crew merged from two crews that both held one kill:
\* the merged transitions carry the record of that kill twice, the kills once
C3_Witness ==
    /\ op.kind = "ingest" /\ ~op.raised
    /\ \E i \in Holders(crews, Ev(op.e).killID) :
          /\ HasMergeTransition(crews[i])
          /\ \E a, b \in DOMAIN crews[i].transitions :
                /\ a < b
                /\ crews[i].transitions[a] = crews[i].transitions[b]
                /\ crews[i].transitions[a].killId \in KillIds(crews[i].kills)

\* C4: process_killmail of an event without a valid player attacker leaves
\* the live crews and the archive queue unchanged.
C4_NpcOnlyDropped ==
    [][(op'.kind = "ingest" /\ ~HasValidPlayer(Ev(op'.e)))
          => (crews' = crews /\ expired_queue' = expired_queue)]_vars

\* the NPC-and-capsule kill delivered to an engine that holds a crew
C4_Witness == op.kind = "ingest" /\ op.e = 6 /\ crews # << >>

\* C5: process_killmail of a malformed event creates and modifies no crew.
C5_MalformedRejected ==
    [][(op'.kind = "ingest" /\ Malformed(Ev(op'.e))) => crews' = crews]_vars

\* C6: after process_killmail of an event with a valid player attacker that
\* no live crew holds, exactly one live crew holds it; with k the number of
\* matching crews, k = 0 adds one crew of a new id, k = 1 leaves the crew ids
\* as they were, k >= 2 leaves one of the k matched crews and deletes the
\* other k - 1; the holder is the new crew or one of the matched crews.
C6_OneHolderAfterIngest ==
    [][(/\ op'.kind = "ingest"
        /\ HasValidPlayer(Ev(op'.e))
        /\ Holders(crews, Ev(op'.e).killID) = {})
       => LET k == Ev(op'.e)
              matches == _find_all_matching_crews(crews, _extract_attacker_info(k),
                                                  k.solar_system_id, _kill_time_ms(k, now))
              matched == {crews[matches[j]].id : j \in DOMAIN matches}
              holders == Holders(crews', k.killID)
          IN  /\ Cardinality(holders) = 1
              /\ Len(crews') = Cardinality(CrewIds(crews'))
              /\ IF matches = << >>
                 THEN /\ Len(crews') = Len(crews) + 1
                      /\ CrewIds(crews) \subseteq CrewIds(crews')
                      /\ \A i \in holders : crews'[i].id \notin CrewIds(crews)
                 ELSE /\ Len(crews') = Len(crews) - (Len(matches) - 1)
                      /\ \A i \in holders :
                            /\ crews'[i].id \in matched
                            /\ CrewIds(crews') = CrewIds(crews) \ (matched \ {crews'[i].id})]_vars

\* the delivery of a kill that bridged two crews: its holder carries a merge
\* transition of the kill's time, and no delivery so far was a repeat
C6_Witness ==
    /\ op.kind = "ingest"
    /\ ingests = SumInts([i \in DOMAIN crews |-> Len(crews[i].kills)])
    /\ \E i \in Holders(crews, Ev(op.e).killID) :
          \E t \in DOMAIN crews[i].transitions :
              /\ crews[i].transitions[t].from.merge
              /\ crews[i].transitions[t].time = Ev(op.e).killmail_time

\* C7: right after update_activities at time now, every live crew has
\* now - last_activity_at within the timeout of its classification, and every
\* crew the call removed with CREW_MIN_KILLS_TO_SAVE kills is in the queue.
C7_TickPostcondition ==
    [][op'.kind = "tick"
          => /\ \A i \in DOMAIN crews' :
                   now - crews'[i].last_activity_at <= ClassTimeout(crews'[i].classification)
             /\ \A i \in Removed :
                   Len(crews[i].kills) >= CREW_MIN_KILLS_TO_SAVE
                       => \E j \in DOMAIN expired_queue' : expired_queue'[j].id = crews[i].id]_vars

\* C8: a crew that leaves the live set (by timeout, by dissolution or as the
\* donor of a merge) is appended to the archive queue if and only if it holds
\* CREW_MIN_KILLS_TO_SAVE kills.
C8_RemovedCrewsArchived ==
    [][\A i \in Removed :
          Len(crews[i].kills) >= CREW_MIN_KILLS_TO_SAVE <=> crews[i].id \in Archived]_vars

\* C9: update_activities removes every crew that is within its timeout and,
\* after member aging, dissolving, whatever its kill count, and archives it
\* if and only if it holds CREW_MIN_KILLS_TO_SAVE kills.
C9_DissolvingRemoved ==
    [][op'.kind = "tick"
          => \A i \in DOMAIN crews :
                (/\ now - crews[i].last_activity_at <= ClassTimeout(crews[i].classification)
                 /\ is_dissolving(Aged(crews[i], now)))
                => /\ i \in Removed
                   /\ Len(crews[i].kills) >= CREW_MIN_KILLS_TO_SAVE
                         <=> crews[i].id \in Archived]_vars

\* C10: get_active_activities changes neither the live crews, nor a field of
\* a crew or a member, nor the archive queue.
C10_SnapshotPureRead ==
    [][op'.kind = "snapshot" => (crews' = crews /\ expired_queue' = expired_queue)]_vars

\* a snapshot that left out a live crew past its timeout and returned another
C10_Witness ==
    /\ op.kind = "snapshot" /\ ~op.raised
    /\ op.result # << >> /\ Len(op.result) < Len(crews)
    /\ \E i \in DOMAIN crews : crews[i].max_probability > 0


\* C11: get_active_activities returns exactly the live crews within their
\* class timeout, each once, by probability descending and, among equal
\* probabilities, by last_activity_at descending.
C11_SnapshotContents ==
    [][op'.kind = "snapshot"
          => LET within == {i \in DOMAIN crews :
                              now - crews[i].last_activity_at
                                  <= ClassTimeout(crews[i].classification)}
                 result == op'.result
             IN  /\ ~op'.raised
                 /\ Len(result) = Cardinality(within)
                 /\ \A i \in within : \E a \in DOMAIN result :
                       /\ result[a].id = crews[i].id
                       /\ result[a].probability = crews[i].probability
                       /\ result[a].lastActivity = crews[i].last_activity_at
                 /\ \A a, b \in DOMAIN result :
                       a < b => \/ result[a].probability > result[b].probability
                                \/ /\ result[a].probability = result[b].probability
                                   /\ result[a].lastActivity >= result[b].lastActivity]_vars

\* C12: pop_expired returns the pending archive records and empties the
\* queue; a pop right after a pop returns nothing; only a tick enqueues, and
\* it appends, so every record is returned by exactly one pop, in enqueue order.
C12_DrainArchive ==
    [][/\ op'.kind = "pop" => (op'.result = expired_queue /\ expired_queue' = << >>)
       /\ (op.kind = "pop" /\ op'.kind = "pop") => op'.result = << >>
       /\ op'.kind \notin {"pop", "tick"} => expired_queue' = expired_queue
       /\ op'.kind = "tick"
             => /\ Len(expired_queue') >= Len(expired_queue)
                /\ SubSeq(expired_queue', 1, Len(expired_queue)) = expired_queue]_vars

\* a pop returned two records of different crews, in the order of their ticks
C12_Witness ==
    /\ op.kind = "pop" /\ expired_queue = << >>
    /\ Len(op.result) >= 2
    /\ op.result[1].id # op.result[2].id
    /\ op.result[1].lastActivity < op.result[2].lastActivity

\* C13: whenever process_killmail merges a donor B into the primary A, the
\* kill list _merge_crews produces holds exactly the kills of A and B by
\* killID, each once, in kill-time order, and total_value is the sum of the
\* values of that list.
C13_MergeKillsUnion ==
    [][op'.kind = "ingest"
          => LET k == Ev(op'.e)
                 kill_time == _kill_time_ms(k, now)
                 matches == IF HasValidPlayer(k)
                            THEN MatchesByKillCount(crews, k, kill_time) ELSE << >>
             IN  \A j \in 2..Len(matches) :
                    LET A == AbsorbDonors(crews, matches, j - 1, kill_time, now)
                        B == crews[matches[j]]
                        merged == _merge_crews(A, B, kill_time, now)
                    IN  /\ KillIds(merged.kills) = KillIds(A.kills) \cup KillIds(B.kills)
                        /\ \A a, b \in DOMAIN merged.kills :
                              a < b => /\ Ev(merged.kills[a]).killID # Ev(merged.kills[b]).killID
                                       /\ _kill_time_ms(Ev(merged.kills[a]), now)
                                             <= _kill_time_ms(Ev(merged.kills[b]), now)
                        /\ merged.total_value = TotalValueOf(merged.kills)]_vars

\* C14: when an event matches two or more crews, the survivor is the matched
\* crew with the largest kill count and keeps its id, every donor id leaves
\* the live set, and the survivor's prev_session_id is the id of each donor
\* that had at least CREW_MIN_KILLS_TO_SAVE kills.
C14_MergeIdentityLineage ==
    [][op'.kind = "ingest"
          => LET k == Ev(op'.e)
                 matches == IF HasValidPlayer(k)
                            THEN MatchesByKillCount(crews, k, _kill_time_ms(k, now))
                            ELSE << >>
             IN  Len(matches) >= 2
                    => /\ \A j \in DOMAIN matches :
                             Len(crews[matches[1]].kills) >= Len(crews[matches[j]].kills)
                       /\ \E s \in DOMAIN crews' :
                             /\ crews'[s].id = crews[matches[1]].id
                             /\ \A j \in 2..Len(matches) :
                                   Len(crews[matches[j]].kills) >= CREW_MIN_KILLS_TO_SAVE
                                      => crews'[s].prev_session_id = crews[matches[j]].id
                       /\ \A j \in 2..Len(matches) :
                             crews[matches[j]].id \notin CrewIds(crews')]_vars

\* C15: after an event bridges two or more crews, the survivor's members
\* include the members of every matched crew and the event's player
\* attackers, and its transitions hold a merge(<donor id>:<donor
\* classification>) record for every absorbed donor.
C15_MergeMembersAndRecord ==
    [][op'.kind = "ingest"
          => LET k == Ev(op'.e)
                 matches == IF HasValidPlayer(k)
                            THEN MatchesByKillCount(crews, k, _kill_time_ms(k, now))
                            ELSE << >>
                 chars(crew) == {crew.members[m].character_id : m \in DOMAIN crew.members}
                 players == {k.attackers[a].character_id : a \in
                               {a \in DOMAIN k.attackers : IsPlayerAttacker(k.attackers[a])}}
             IN  Len(matches) >= 2
                    => \E s \in DOMAIN crews' :
                          /\ crews'[s].id = crews[matches[1]].id
                          /\ players \subseteq chars(crews'[s])
                          /\ \A j \in DOMAIN matches :
                                chars(crews[matches[j]]) \subseteq chars(crews'[s])
                          /\ \A j \in 2..Len(matches) :
                                \E t \in DOMAIN crews'[s].transitions :
                                   /\ crews'[s].transitions[t].from.merge
                                   /\ crews'[s].transitions[t].from.donor
                                         = crews[matches[j]].id
                                   /\ crews'[s].transitions[t].from.class
                                         = crews[matches[j]].classification]_vars

\* the bridging kill of three gangs was delivered: one crew of five pilots
\* with a merge record for each of the two donors
C15_Witness ==
    /\ op.kind = "ingest" /\ op.e = 17 /\ Len(crews) = 1
    /\ Len(crews[1].members) = 5
    /\ \E t, u \in DOMAIN crews[1].transitions :
          /\ crews[1].transitions[t].from.merge
          /\ crews[1].transitions[u].from.merge
          /\ crews[1].transitions[t].from.donor # crews[1].transitions[u].from.donor

\* C16: in every reachable state every live crew's visited_system_ids is the
\* set of the ids in its systems_visited.
C16_VisitedSystemsAgree ==
    \A i \in DOMAIN crews :
       crews[i].visited_system_ids
          = {crews[i].systems_visited[s].id : s \in DOMAIN crews[i].systems_visited}

\* a crew that moved to a second system and then absorbed another crew
C16_Witness ==
    \E i \in DOMAIN crews :
       /\ HasMergeTransition(crews[i])
       /\ Len(crews[i].systems_visited) >= 2
       /\ Cardinality(crews[i].visited_system_ids) >= 2

\* C17: in every reachable state every live crew with stargate_name set has
\* gate_kill_count >= ceil(effective_kills / 2), effective_kills being the
\* ship kills plus the orphan pod kills of its kill list.
C17_GateRatio ==
    \A i \in DOMAIN crews :
       crews[i].stargate_name # ""
          => 2 * crews[i].gate_kill_count >= _count_effective_kills(crews[i])

\* a crew that keeps its gate name with some of its effective kills off the
\* gate, a follow-up pod left out of the count
C17_Witness ==
    \E i \in DOMAIN crews :
       /\ crews[i].stargate_name # ""
       /\ crews[i].gate_kill_count < _count_effective_kills(crews[i])
       /\ _count_effective_kills(crews[i]) < Len(crews[i].kills)

\* C18: in every reachable state every live crew with probability > 0 has
\* stargate_name set.
C18_ProbabilityNeedsGate ==
    \A i \in DOMAIN crews : crews[i].probability > 0 => crews[i].stargate_name # ""

\* a crew that was scored on a gate, then lost its gate name: its
\* probability is back to 0
C18_Witness ==
    \E i \in DOMAIN crews :
       /\ crews[i].stargate_name = "" /\ crews[i].probability = 0
       /\ crews[i].max_probability > 0
       /\ crews[i].gate_kill_count > 0

\* C19: in every reachable state a live crew with has_smartbombs, a gate name
\* and its last five kills (or fewer) in one system is not labeled camp, and
\* a live crew with at least BATTLE_PARTICIPANT_THRESHOLD active or idle
\* members is not labeled roam.
C19_ClassificationPriority ==
    \A i \in DOMAIN crews :
       /\ (crews[i].has_smartbombs /\ crews[i].stargate_name # ""
              /\ _is_stationary_recent(crews[i]))
             => crews[i].classification # "camp"
       /\ Len(ActiveOrIdle(crews[i].members)) >= BATTLE_PARTICIPANT_THRESHOLD
             => crews[i].classification # "roam"

\* C20: in every reachable state the transitions of every live crew form a
\* chain: each entry's "from" is the "to" of the entry before it, unless the
\* entry is a merge record.
C20_TransitionChain ==
    \A i \in DOMAIN crews :
       \A n \in 1..(Len(crews[i].transitions) - 1) :
          \/ crews[i].transitions[n + 1].from.merge
          \/ crews[i].transitions[n].to = crews[i].transitions[n + 1].from.class

\* C21: in every reachable state each live crew's anchor_corp_id and
\* anchor_alliance_id are a most common corporation / alliance among its
\* active or idle members, and are unset (0) when no such member has one.
C21_AnchorIsMode ==
    \A i \in DOMAIN crews :
       LET am == ActiveOrIdle(crews[i].members)
           corp(v) == Cardinality({j \in DOMAIN am : am[j].corp_id = v})
           alli(v) == Cardinality({j \in DOMAIN am : am[j].alliance_id = v})
           corps == {am[j].corp_id : j \in DOMAIN am} \ {0}
           allis == {am[j].alliance_id : j \in DOMAIN am} \ {0}
       IN  /\ IF corps = {} THEN crews[i].anchor_corp_id = 0
              ELSE /\ crews[i].anchor_corp_id \in corps
                   /\ \A v \in corps : corp(v) <= corp(crews[i].anchor_corp_id)
           /\ IF allis = {} THEN crews[i].anchor_alliance_id = 0
              ELSE /\ crews[i].anchor_alliance_id \in allis
                   /\ \A v \in allis : alli(v) <= alli(crews[i].anchor_alliance_id)

\* C22: in every reachable state the kill_count of every member of every live
\* crew is the number of the crew's kills in which that character is a player
\* attacker.
C22_MemberKillCount ==
    \A i \in DOMAIN crews : \A m \in DOMAIN crews[i].members :
       crews[i].members[m].kill_count =
          Cardinality({n \in DOMAIN crews[i].kills :
                          crews[i].members[m].character_id
                              \in _extract_attacker_info(Ev(crews[i].kills[n])).chars})

\* C23: in every reachable state the kills of every live crew are in the
\* order of their killmail_time.
C23_KillsOrderedByTime ==
    \A i \in DOMAIN crews : \A a, b \in DOMAIN crews[i].kills :
       (/\ a < b
        /\ Ev(crews[i].kills[a]).killmail_time # NoTime
        /\ Ev(crews[i].kills[b]).killmail_time # NoTime)
          => Ev(crews[i].kills[a]).killmail_time <= Ev(crews[i].kills[b]).killmail_time


\* C24: an ingest of a pod kill whose victim lost a ship in a kill that
\* precedes the pod in the crew's kills (all of them, for a pod the crew does
\* not hold yet) leaves that crew's gate_kill_count and effective kill count
\* as they were, and leaves its stargate_name set if it was set.
C24_FollowupPodNoDilution ==
    [][(op'.kind = "ingest" /\ ~op'.raised /\ IsPodKill(Ev(op'.e)))
          => \A i \in DOMAIN crews : \A j \in DOMAIN crews' :
                LET ks == crews[i].kills
                    before == {n \in DOMAIN ks :
                                 \A m \in 1..n : Ev(ks[m]).killID # Ev(op'.e).killID}
                IN  (/\ crews'[j].id = crews[i].id
                     /\ Ev(op'.e).killID \in KillIds(crews'[j].kills)
                     /\ Ev(op'.e).victim.character_id # 0
                     /\ \E n \in before :
                           /\ Ev(ks[n]).victim.character_id = Ev(op'.e).victim.character_id
                           /\ ~IsPodKill(Ev(ks[n])))
                       => /\ crews'[j].gate_kill_count = crews[i].gate_kill_count
                          /\ _count_effective_kills(crews'[j]) = _count_effective_kills(crews[i])
                          /\ (crews[i].stargate_name # "" => crews'[j].stargate_name # "")]_vars

\* two ship kills on the gate, then the pod of the first victim: both counts
\* are two and the gate name is set
C24_Witness ==
    /\ op.kind = "ingest" /\ ~op.raised /\ IsPodKill(Ev(op.e))
    /\ \E i \in DOMAIN crews :
          /\ Len(crews[i].kills) = 3
          /\ crews[i].kills[3] = op.e
          /\ \E n \in 1..2 :
                /\ Ev(crews[i].kills[n]).victim.character_id = Ev(op.e).victim.character_id
                /\ ~IsPodKill(Ev(crews[i].kills[n]))
          /\ crews[i].gate_kill_count = 2
          /\ _count_effective_kills(crews[i]) = 2
          /\ crews[i].stargate_name # ""

\* C25: no call of process_killmail, update_activities,
\* get_active_activities or pop_expired starts while another call is between
\* its first and last statement, or while the crews hold what a call that
\* did not reach its end has written.
C25_AtomicOperations ==
    [][op'.kind \in {"begin", "tick", "snapshot", "pop"}
          => inflight.e = 0 /\ ~inflight.torn]_vars

\* C26: a tick never raises the probability of a crew it keeps.
C26_DecayMonotone ==
    [][(op'.kind = "tick" /\ ~op'.raised)
          => \A i \in DOMAIN crews : \A j \in DOMAIN crews' :
                crews'[j].id = crews[i].id
                   => crews'[j].probability <= crews[i].probability]_vars

\* C27: the record a tick appends to the archive queue for a crew whose
\* prev_session_id is set gives that id to the archive sink.
C27_ArchiveCarriesLineage ==
    [][op'.kind = "tick"
          => \A i \in DOMAIN crews :
                \A j \in (Len(expired_queue) + 1)..Len(expired_queue') :
                   (crews[i].prev_session_id # 0 /\ expired_queue'[j].id = crews[i].id)
                      => SavedPrevSessionId(expired_queue'[j]) = crews[i].prev_session_id]_vars

\* C28: at every ingest of an event with a player attacker the matcher
\* returns, for the crews as they are before the call, exactly the crews
\* scoring at least MATCH_THRESHOLD, each once, by score descending; and
\* every crew the ingest removes scored at least MATCH_THRESHOLD.
C28_MatcherThreshold ==
    [][(op'.kind = "ingest" /\ HasValidPlayer(Ev(op'.e)))
          => LET k == Ev(op'.e)
                 kt == _kill_time_ms(k, now)
                 info == _extract_attacker_info(k)
                 m == _find_all_matching_crews(crews, info, k.solar_system_id, kt)
                 sc == [i \in DOMAIN crews |->
                           MatchScore(crews[i], info, k.solar_system_id, kt)]
                 above == {i \in DOMAIN crews : sc[i].num >= MATCH_THRESHOLD * sc[i].den}
             IN  /\ {m[a] : a \in DOMAIN m} = above
                 /\ Len(m) = Cardinality(above)
                 /\ \A a, b \in DOMAIN m :
                       a < b => sc[m[a]].num * sc[m[b]].den >= sc[m[b]].num * sc[m[a]].den
                 /\ Removed \subseteq above]_vars

\* an ingest that merged the crews the matcher returned and left another
\* crew, which does not hold the kill, alone
C28_Witness ==
    /\ op.kind = "ingest" /\ ~op.raised
    /\ \E i, j \in DOMAIN crews :
          /\ i # j
          /\ Cardinality({t \in DOMAIN crews[i].transitions :
                             /\ crews[i].transitions[t].from.merge
                             /\ crews[i].transitions[t].time = Ev(op.e).killmail_time}) >= 1
          /\ Ev(op.e).killID \in KillIds(crews[i].kills)
          /\ Ev(op.e).killID \notin KillIds(crews[j].kills)

C30_ExpiryArchivesDeparted ==
    [][(op'.kind = "tick" /\ ~op'.raised)
          => \A i \in DOMAIN crews :
                now - crews[i].last_activity_at >= 60
                   => /\ crews[i].id \notin CrewIds(crews')
                      /\ \E j \in (Len(expired_queue) + 1)..Len(expired_queue') :
                            /\ expired_queue'[j].id = crews[i].id
                            /\ expired_queue'[j].departedMembers = Len(crews[i].members)
                            /\ expired_queue'[j].activeMembers = 0
                            /\ expired_queue'[j].idleMembers = 0]_vars

\* C31: after an ingest that returned, a member of the crew that took the
\* event who was active before it and is the victim character of the event
\* has status departed.
C31_VictimDeparts ==
    [][(op'.kind = "ingest" /\ ~op'.raised)
          => \A i \in DOMAIN crews : \A j \in DOMAIN crews' :
                (/\ crews'[j].id = crews[i].id
                 /\ Ev(op'.e).killID \in KillIds(crews'[j].kills))
                   => \A m \in DOMAIN crews[i].members :
                         (/\ crews[i].members[m].status = "active"
                          /\ crews[i].members[m].character_id = Ev(op'.e).victim.character_id)
                            => \E n \in DOMAIN crews'[j].members :
                                  /\ crews'[j].members[n].character_id
                                        = crews[i].members[m].character_id
                                  /\ crews'[j].members[n].status = "departed"]_vars

\* C32: in every reachable state the gate_kill_count of each live crew is
\* the number of its kills that are gate kills and are ship kills or pods
\* whose victim lost no ship in an earlier kill of the crew.
C32_GateKillCountDerived ==
    \A i \in DOMAIN crews :
        LET ks == crews[i].kills
            at(n) == _kill_time_ms(Ev(ks[n]), now)
            orphan(n) == \A m \in DOMAIN ks :
                            ~(/\ at(m) < at(n)
                              /\ Ev(ks[m]).victim.character_id # 0
                              /\ Ev(ks[m]).victim.character_id = Ev(ks[n]).victim.character_id
                              /\ ~IsPodKill(Ev(ks[m])))
        IN  crews[i].gate_kill_count
               = Cardinality({n \in DOMAIN ks :
                                /\ _is_gate_camp_kill(Ev(ks[n]))
                                /\ (~IsPodKill(Ev(ks[n])) \/ orphan(n))})

\* C33: after every step each live crew's probability is 0 or between 5 and
\* 95 and at most its max_probability, and no step lowers the
\* max_probability of a crew that stays live (a merge survivor included).
C33_ProbabilityRange ==
    [][/\ \A j \in DOMAIN crews' :
             /\ crews'[j].probability \in {0} \cup (MIN_PROB_THRESHOLD..95)
             /\ crews'[j].max_probability >= crews'[j].probability
       /\ \A i \in DOMAIN crews : \A j \in DOMAIN crews' :
             crews'[j].id = crews[i].id
                => crews'[j].max_probability >= crews[i].max_probability
       /\ \A i \in Removed : \A j \in DOMAIN crews' :
             (op'.kind = "ingest" /\ Ev(op'.e).killID \in KillIds(crews'[j].kills))
                => crews'[j].max_probability >= crews[i].max_probability]_vars

\* a tick decayed a crew to a probability under its max_probability and
\* floored another crew to 0 that had a max_probability of 5 or more
C33_Witness ==
    /\ op.kind = "tick" /\ ~op.raised
    /\ \E i \in DOMAIN crews :
          /\ crews[i].probability >= MIN_PROB_THRESHOLD
          /\ crews[i].probability < crews[i].max_probability
    /\ \E i \in DOMAIN crews :
          /\ crews[i].probability = 0
          /\ crews[i].max_probability >= MIN_PROB_THRESHOLD
          /\ now - crews[i].last_kill_at < DECAY_START_MS + 10

\* C34: a tick at a time 23 minutes or more after the last_kill_at of a crew
\* that stays live leaves that crew with probability 0 and a classification
\* other than camp and roaming_camp.
C34_BoundedDecay ==
    [][op'.kind = "tick"
          => \A i \in DOMAIN crews : \A j \in DOMAIN crews' :
                (/\ crews'[j].id = crews[i].id
                 /\ now - crews[i].last_kill_at >= DECAY_START_MS + 10)
                   => /\ crews'[j].probability = 0
                      /\ crews'[j].classification \notin {"camp", "roaming_camp"}]_vars

\* C35: between operations every live crew's classification is the one
\* derived from its current state; a camp or roaming_camp has a gate name and
\* probability 5 or more, a smartbomb crew has has_smartbombs and a gate
\* name, a solo_camp has a gate name and one player attacker on every kill.
C35_LabelMatchesState ==
    inflight.e = 0
       => \A i \in DOMAIN crews :
             /\ crews[i].classification = _derive_classification(crews[i])
             /\ crews[i].classification \in {"camp", "roaming_camp"}
                   => crews[i].stargate_name # "" /\ crews[i].probability >= 5
             /\ crews[i].classification = "smartbomb"
                   => crews[i].has_smartbombs /\ crews[i].stargate_name # ""
             /\ crews[i].classification = "solo_camp"
                   => crews[i].stargate_name # "" /\ IsSolo(crews[i])

\* C36: after every step each live crew's last_kill_at and last_activity_at
\* are the latest killmail_time among its kills, and neither is lower than
\* the crew had before the step.
C36_LastKillIsLatest ==
    [][\A j \in DOMAIN crews' :
          /\ \A n \in DOMAIN crews'[j].kills :
                /\ crews'[j].last_kill_at >= Ev(crews'[j].kills[n]).killmail_time
                /\ crews'[j].last_activity_at >= Ev(crews'[j].kills[n]).killmail_time
          /\ \E n \in DOMAIN crews'[j].kills :
                crews'[j].last_kill_at = Ev(crews'[j].kills[n]).killmail_time
          /\ \E n \in DOMAIN crews'[j].kills :
                crews'[j].last_activity_at = Ev(crews'[j].kills[n]).killmail_time
          /\ \A i \in DOMAIN crews :
                crews[i].id = crews'[j].id
                   => /\ crews'[j].last_kill_at >= crews[i].last_kill_at
                      /\ crews'[j].last_activity_at >= crews[i].last_activity_at]_vars

C38_ArchiveHandOff ==
    ticker.pc # "save"
       => /\ expired_queue = << >>
          /\ \A id \in ticker.made :
                Cardinality({n \in DOMAIN ticker.passed : ticker.passed[n] = id}) = 1

\* C39: in every reachable state no two calls of the engine's
\* process_killmail made by the killmail tasks carry the same killID.
C39_AtMostOnceDelivery ==
    \A i \in DOMAIN intake.fed : \A j \in DOMAIN intake.fed :
        i # j => Ev(intake.fed[i]).killID # Ev(intake.fed[j]).killID

\* a task was turned back by the insert while another task of the same
\* package is between its insert and its call of the engine
C39_Witness ==
    /\ op.kind = "insert" /\ op.raised
    /\ \E t \in DOMAIN intake.tasks :
          intake.tasks[t].e = op.e /\ intake.tasks[t].pc = "enrich"
    /\ \E t \in DOMAIN intake.tasks :
          intake.tasks[t].e = op.e /\ intake.tasks[t].pc = "done"

\* C40: in every reachable state the last entry of a live crew's
\* systems_visited is its current_system_id, and the first entry is the
\* system of the earliest of its kills.
C40_VisitedEndsMatch ==
    \A i \in DOMAIN crews :
        LET sv == crews[i].systems_visited
            ks == crews[i].kills
        IN  (sv # << >> /\ ks # << >>)
               => /\ sv[Len(sv)].id = crews[i].current_system_id
                  /\ \E n \in DOMAIN ks :
                        /\ \A m \in DOMAIN ks :
                              Ev(ks[n]).killmail_time <= Ev(ks[m]).killmail_time
                        /\ Ev(ks[n]).solar_system_id = sv[1].id
====
